---------------------------- MODULE Spec2Model ----------------------------
(***************************************************************************)
(* Ensemble-reasoning server (src/ensemble-reasoning): the session store,  *)
(* the sliding-window rate limiter and the request handlers of             *)
(* modules/tools.py behind the dispatcher of server.py.                    *)
(*                                                                         *)
(* Conventions.  Endorsement levels and weights are floats in the code;    *)
(* they are kept here in tenths (0.5 is 5, -1.0 is -10).  A text (thought, *)
(* note, integration) is kept as its length, the only thing the handlers   *)
(* read of it.  uuid4 session ids are the fresh naturals 1, 2, ...; NoId   *)
(* is Python's None (or a missing "sessionId" argument).  time.time() is a *)
(* non-decreasing integer clock, now.                                      *)
(***************************************************************************)
EXTENDS Integers, Sequences, FiniteSets, TLC

VARIABLES
    active_sessions,     \* models.active_sessions: session id -> EnsembleSession
    current_session_id,  \* models.current_session_id
    agent_session_ops,   \* models._agent_session_ops: session id -> lens -> deque
    agent_ops_total,     \* METRICS["counters"]["agent_ops_total"]
    now,                 \* the value time.time() returns
    ops_log,             \* history: every timestamp record_agent_op ever appended
    response,            \* the envelope of the call being answered, if any
    fuel,                \* store-changing calls the run may still make
    in_flight,           \* requests between their rate check and their record step
    exporter,            \* the metrics exporter: thread, stop event, workers
    lateral,             \* lateral-synthesis: SESSIONS and CURRENT_SESSION_ID
    federated            \* federated-intelligence: stored chat sessions, calls

vars == <<active_sessions, current_session_id, agent_session_ops,
          agent_ops_total, now, ops_log, response, fuel,
          in_flight, exporter, lateral, federated>>

\* what the handlers of the ensemble tools never touch
aside == <<in_flight, exporter, lateral, federated>>

---------------------------------------------------------------------------
(* Bounds of the model *)

MaxSessions == 2
MaxCalls == 4
MaxRateCalls == 4
MaxTime == 3

(* ServerConfig, scaled down (every field is overridable from the environment) *)
max_thoughts_per_session == 3
max_thoughts_per_agent_per_session == 2
max_endorsements_per_thought == 2
max_reconciles_per_integration == 2
rate_limit_ops_per_window == 2
rate_limit_window_seconds == 1

(* ServerConfig, as in the source *)
max_thought_length == 4000
max_note_length == 2000
max_integration_length == 4000

NoId == 0
SessionIds == 1..MaxSessions
ThoughtIds == 1..(max_thoughts_per_session + 1)

AGENT_LENSES == {"analytical", "skeptical", "creative", "pragmatic", "ethical"}

Range(s) == {s[i] : i \in DOMAIN s}

Min(a, b) == IF a < b THEN a ELSE b
Max(a, b) == IF a > b THEN a ELSE b

---------------------------------------------------------------------------
(* Inputs the requests are drawn from *)

LensInputs == {"analytical", "skeptical", "creative"}

StartInputs ==
    { <<"analytical", "skeptical">>,
      <<"analytical", "skeptical", "creative">>,
      <<"skeptical", "skeptical">>,
      <<"analytical">>,
      <<"analytical", "mystic">> }

SessionIdInputs == {NoId} \cup SessionIds
ThoughtTextInputs == {1, max_thought_length + 1}
NoteInputs == {0, 1, max_note_length + 1}
IntegrationInputs == {1, max_integration_length + 1}
WeightInputs == {15}
LevelInputs == {-15, 8}
BuildsOnInputs ==
    {<<>>} \cup {<<i>> : i \in ThoughtIds} \cup {<<1, 2>>}
ReconcilesInputs ==
    {<<>>} \cup {<<i>> : i \in ThoughtIds} \cup {<<1, 2>>, <<2, 1, 1>>}

---------------------------------------------------------------------------
(* The envelopes of tools._ok and tools._err, and the dispatcher's own *)

Ok(tool, id) ==
    [tool |-> tool, status |-> "success", error |-> "", id |-> id]

Err(tool, error, id) ==
    [tool |-> tool, status |-> "error", error |-> error, id |-> id]

NoResponse == [tool |-> "", status |-> "", error |-> "", id |-> 0]

(* The parts of the state outside the ensemble store, at rest *)
MaxStarts == 2
MaxExportsCounted == 2
Workers == 1..MaxStarts

NoInFlight == <<>>

\* no exporter thread, no stop event (both None), no worker ever started
ExporterStopped ==
    [ thread        |-> 0,
      stop_event    |-> 0,
      is_set        |-> [w \in Workers |-> FALSE],
      pc            |-> [w \in Workers |-> "unstarted"],
      waiting_on    |-> [w \in Workers |-> 0],
      enabled       |-> FALSE,
      caller        |-> "idle",
      last          |-> "",
      signalled     |-> [w \in Workers |-> FALSE],
      exports_after |-> [w \in Workers |-> 0] ]

NoLateral == [SESSIONS |-> <<>>, CURRENT_SESSION_ID |-> 0]

(* federated-intelligence before any tool call: no session file under
   _logs/sessions, no consultation awaiting its provider *)
NoFederated ==
    [ sessions      |-> <<>>,
      calls         |-> {},
      queries       |-> 0,
      default_model |-> "",
      result        |-> [tool |-> "", status |-> "", error |-> "", query |-> 0] ]

EnsembleOnly ==
    /\ in_flight = NoInFlight
    /\ exporter = ExporterStopped
    /\ lateral = NoLateral
    /\ federated = NoFederated

---------------------------------------------------------------------------
(* models.EnsembleSession *)

(* a session whose counters start at 0 *)
NewSession_counters_at_zero(session_id, agent_lenses) ==
    [ session_id       |-> session_id,
      agent_lenses     |-> agent_lenses,
      thoughts         |-> <<>>,
      integrations     |-> <<>>,
      thought_index    |-> <<>>,
      agent_thoughts   |-> [a \in AGENT_LENSES |-> <<>>],
      next_thought_id  |-> 0,
      next_proposal_id |-> 0 ]

NewSession(session_id, agent_lenses) ==
    [ session_id       |-> session_id,
      agent_lenses     |-> agent_lenses,
      thoughts         |-> <<>>,
      integrations     |-> <<>>,
      thought_index    |-> <<>>,
      agent_thoughts   |-> [a \in AGENT_LENSES |-> <<>>],
      next_thought_id  |-> 1,
      next_proposal_id |-> 1 ]

(* CollaborativeThought(thought_id=0, ...) as tool_contribute builds it *)
CollaborativeThought(thought, agent_lens, builds_on, weight) ==
    [ thought_id   |-> 0,
      thought      |-> thought,
      agent_lens   |-> agent_lens,
      builds_on    |-> builds_on,
      weight       |-> weight,
      endorsements |-> <<>>,
      challenges   |-> <<>> ]

(* IntegrationProposal(proposal_id=0, ...) as tool_propose_integration builds it *)
IntegrationProposal(proposing_agent, integration, reconciles) ==
    [ proposal_id     |-> 0,
      proposing_agent |-> proposing_agent,
      integration     |-> integration,
      reconciles      |-> reconciles,
      endorsements    |-> <<>> ]

(* add_thought comparing with > where the code has >= : one thought too many *)
add_thought_cap_off_by_one(session, thought) ==
    IF Len(session.thoughts) > max_thoughts_per_session
    THEN [raised |-> TRUE, id |-> 0, session |-> session]
    ELSE IF Len(session.agent_thoughts[thought.agent_lens])
                > max_thoughts_per_agent_per_session
    THEN [raised |-> TRUE, id |-> 0, session |-> session]
    ELSE LET id == session.next_thought_id
             t  == [thought EXCEPT !.thought_id = id]
         IN  [ raised  |-> FALSE,
               id      |-> id,
               session |->
                 [session EXCEPT
                    !.next_thought_id = id + 1,
                    !.thoughts = Append(@, t),
                    !.thought_index = (id :> (Len(session.thoughts) + 1)) @@ @,
                    !.agent_thoughts[thought.agent_lens] = Append(@, id)] ]

(* add_thought that numbers the thought but forgets self.next_thought_id += 1 *)
add_thought_no_increment(session, thought) ==
    IF Len(session.thoughts) >= max_thoughts_per_session
    THEN [raised |-> TRUE, id |-> 0, session |-> session]
    ELSE IF Len(session.agent_thoughts[thought.agent_lens])
                >= max_thoughts_per_agent_per_session
    THEN [raised |-> TRUE, id |-> 0, session |-> session]
    ELSE LET id == session.next_thought_id
             t  == [thought EXCEPT !.thought_id = id]
         IN  [ raised  |-> FALSE,
               id      |-> id,
               session |->
                 [session EXCEPT
                    !.thoughts = Append(@, t),
                    !.thought_index = (id :> (Len(session.thoughts) + 1)) @@ @,
                    !.agent_thoughts[thought.agent_lens] = Append(@, id)] ]

(* add_thought that puts the new thought at the head of the list *)
add_thought_at_head(session, thought) ==
    IF Len(session.thoughts) >= max_thoughts_per_session
    THEN [raised |-> TRUE, id |-> 0, session |-> session]
    ELSE IF Len(session.agent_thoughts[thought.agent_lens])
                >= max_thoughts_per_agent_per_session
    THEN [raised |-> TRUE, id |-> 0, session |-> session]
    ELSE LET id == session.next_thought_id
             t  == [thought EXCEPT !.thought_id = id]
         IN  [ raised  |-> FALSE,
               id      |-> id,
               session |->
                 [session EXCEPT
                    !.next_thought_id = id + 1,
                    !.thoughts = <<t>> \o @,
                    !.thought_index = (id :> (Len(session.thoughts) + 1)) @@ @,
                    !.agent_thoughts[thought.agent_lens] = Append(@, id)] ]

(* EnsembleSession.add_thought: raises ValueError at either cap, before any
   assignment; otherwise numbers the thought and appends it to the list and
   to both indices.  thought_index holds the position of the indexed object
   in the list (the dict and the list share the object). *)
add_thought(session, thought) ==
    IF Len(session.thoughts) >= max_thoughts_per_session
    THEN [raised |-> TRUE, id |-> 0, session |-> session]
    ELSE IF Len(session.agent_thoughts[thought.agent_lens])
                >= max_thoughts_per_agent_per_session
    THEN [raised |-> TRUE, id |-> 0, session |-> session]
    ELSE LET id == session.next_thought_id
             t  == [thought EXCEPT !.thought_id = id]
         IN  [ raised  |-> FALSE,
               id      |-> id,
               session |->
                 [session EXCEPT
                    !.next_thought_id = id + 1,
                    !.thoughts = Append(@, t),
                    !.thought_index = (id :> (Len(session.thoughts) + 1)) @@ @,
                    !.agent_thoughts[thought.agent_lens] = Append(@, id)] ]

(* add_integration that numbers proposals from the thought counter *)
add_integration_shared_counter(session, integration) ==
    LET id == session.next_thought_id
    IN  [ id      |-> id,
          session |->
            [session EXCEPT
               !.next_thought_id = id + 1,
               !.integrations =
                   Append(@, [integration EXCEPT !.proposal_id = id])] ]

(* EnsembleSession.add_integration *)
add_integration(session, integration) ==
    LET id == session.next_proposal_id
    IN  [ id      |-> id,
          session |->
            [session EXCEPT
               !.next_proposal_id = id + 1,
               !.integrations =
                   Append(@, [integration EXCEPT !.proposal_id = id])] ]

(* EnsembleSession.get_thought: truthy iff the id is a key of the index *)
has_thought(session, thought_id) ==
    thought_id \in DOMAIN session.thought_index

get_thought(session, thought_id) ==
    session.thoughts[session.thought_index[thought_id]]

---------------------------------------------------------------------------
(* The rate limiter of models.py *)

RECURSIVE PruneFront(_, _)
(* while dq and dq[0] < cutoff: dq.popleft() *)
PruneFront(dq, cutoff) ==
    IF dq # <<>> /\ Head(dq) < cutoff
    THEN PruneFront(Tail(dq), cutoff)
    ELSE dq

(* is_rate_limited with > for >= : one operation too many per window *)
is_rate_limited_off_by_one(dq, t) ==
    LET cutoff == t - rate_limit_window_seconds
        pruned == PruneFront(dq, cutoff)
    IN  [ limited |-> Len(pruned) > rate_limit_ops_per_window,
          dq      |-> pruned ]

(* is_rate_limited without the pruning loop *)
is_rate_limited_unpruned(dq, t) ==
    [ limited |-> Len(dq) >= rate_limit_ops_per_window,
      dq      |-> dq ]

(* is_rate_limited at clock value t: the verdict, and the deque as the call
   leaves it *)
is_rate_limited(dq, t) ==
    LET cutoff == t - rate_limit_window_seconds
        pruned == PruneFront(dq, cutoff)
    IN  [ limited |-> Len(pruned) >= rate_limit_ops_per_window,
          dq      |-> pruned ]

(* record_agent_op at clock value t *)
record_agent_op(dq, t) == Append(dq, t)

---------------------------------------------------------------------------
(* The checks of the handlers in modules/tools.py *)

(* session_id = args.get("sessionId") or models.current_session_id *)
ResolveSessionId(sessionId) ==
    IF sessionId # NoId THEN sessionId ELSE current_session_id

(* not session_id or session_id not in models.active_sessions *)
NoActiveSession(session_id) ==
    session_id = NoId \/ session_id \notin DOMAIN active_sessions

(* the participant check left out *)
AgentNotInSession_never(session, agent_lens) == FALSE

(* the participant check made against the vocabulary, not the session *)
AgentNotInSession_vocabulary(session, agent_lens) ==
    agent_lens \notin AGENT_LENSES

(* agent_lens not in session.agent_lenses *)
AgentNotInSession(session, agent_lens) ==
    agent_lens \notin Range(session.agent_lenses)

(* the reference check left out *)
FirstUnknown_none(session, ids) == 0

(* the reference check taking the id about to be assigned for a thought *)
FirstUnknown_allows_next(session, ids) ==
    LET bad == {i \in DOMAIN ids :
                   /\ ~has_thought(session, ids[i])
                   /\ ids[i] # session.next_thought_id}
    IN  IF bad = {} THEN 0
        ELSE CHOOSE i \in bad : \A j \in bad : i <= j

(* the reference check made on the first id only *)
FirstUnknown_first_only(session, ids) ==
    IF ids # <<>> /\ ~has_thought(session, ids[1]) THEN 1 ELSE 0

(* for tid in ids: if not session.get_thought(tid): return _err(..., thoughtId=tid)
   The position of the first id that is no thought, 0 when all are. *)
FirstUnknown(session, ids) ==
    LET bad == {i \in DOMAIN ids : ~has_thought(session, ids[i])}
    IN  IF bad = {} THEN 0
        ELSE CHOOSE i \in bad : \A j \in bad : i <= j

(* the author check left out *)
IsSelfEndorsement_never(thought, agent_lens) == FALSE

(* agent_lens == thought.agent_lens *)
IsSelfEndorsement(thought, agent_lens) ==
    agent_lens = thought.agent_lens

(* len(thought.endorsements) >= CONFIG.max_endorsements_per_thought *)
(* the cap on endorsers tested one entry late *)
MaxEndorsementsReached_off_by_one(thought) ==
    Cardinality(DOMAIN thought.endorsements) > max_endorsements_per_thought

MaxEndorsementsReached(thought) ==
    Cardinality(DOMAIN thought.endorsements) >= max_endorsements_per_thought

(* the value passed on as it came *)
Clamp_none(lo, hi, x) == x

(* max(lo, min(hi, x)) *)
Clamp(lo, hi, x) == Max(lo, Min(hi, x))

Init ==
    /\ active_sessions = <<>>
    /\ current_session_id = NoId
    /\ agent_session_ops = [s \in SessionIds |-> [a \in AGENT_LENSES |-> <<>>]]
    /\ agent_ops_total = 0
    /\ now = 0
    /\ ops_log = [s \in SessionIds |-> [a \in AGENT_LENSES |-> <<>>]]
    /\ response = NoResponse
    /\ fuel = MaxCalls
    /\ EnsembleOnly

(* the same, for the runs that follow the rate limiter over time *)
InitRate ==
    /\ active_sessions = <<>>
    /\ current_session_id = NoId
    /\ agent_session_ops = [s \in SessionIds |-> [a \in AGENT_LENSES |-> <<>>]]
    /\ agent_ops_total = 0
    /\ now = 0
    /\ ops_log = [s \in SessionIds |-> [a \in AGENT_LENSES |-> <<>>]]
    /\ response = NoResponse
    /\ fuel = MaxRateCalls
    /\ EnsembleOnly

---------------------------------------------------------------------------
(* What a handler leaves behind *)

(* a return before the rate limiter is consulted *)
Rejected(envelope) ==
    /\ response' = envelope
    /\ UNCHANGED aside
    /\ UNCHANGED <<active_sessions, current_session_id, agent_session_ops,
                   agent_ops_total, now, ops_log, fuel>>

(* a rejection that has already recorded the operation *)
RejectedAfterCheck_recording(envelope, session_id, agent_lens, dq) ==
    /\ response' = envelope
    /\ agent_session_ops' =
           [agent_session_ops EXCEPT
              ![session_id][agent_lens] = record_agent_op(dq, now)]
    /\ UNCHANGED aside
    /\ UNCHANGED <<active_sessions, current_session_id, agent_ops_total,
                   now, ops_log, fuel>>

(* a return (or a raise) after is_rate_limited has pruned the deque *)
RejectedAfterCheck(envelope, session_id, agent_lens, dq) ==
    /\ response' = envelope
    /\ agent_session_ops' =
           [agent_session_ops EXCEPT ![session_id][agent_lens] = dq]
    /\ UNCHANGED aside
    /\ UNCHANGED <<active_sessions, current_session_id, agent_ops_total,
                   now, ops_log, fuel>>

(* the operation recorded under the agent alone, in every session *)
Recorded_keyed_by_agent(envelope, session_id, session, agent_lens, dq, t) ==
    /\ fuel > 0
    /\ fuel' = fuel - 1
    /\ t <= MaxTime
    /\ response' = envelope
    /\ active_sessions' = [active_sessions EXCEPT ![session_id] = session]
    /\ agent_session_ops' =
           [s \in SessionIds |->
               [agent_session_ops[s] EXCEPT
                  ![agent_lens] = IF s = session_id THEN record_agent_op(dq, t)
                                  ELSE record_agent_op(@, t)]]
    /\ ops_log' = [ops_log EXCEPT ![session_id][agent_lens] = Append(@, t)]
    /\ agent_ops_total' = agent_ops_total + 1
    /\ now' = t
    /\ UNCHANGED aside
    /\ UNCHANGED current_session_id

(* the session as mutated, then models.record_agent_op, whose time.time()
   returns t *)
Recorded(envelope, session_id, session, agent_lens, dq, t) ==
    /\ fuel > 0
    /\ fuel' = fuel - 1
    /\ t <= MaxTime
    /\ response' = envelope
    /\ active_sessions' = [active_sessions EXCEPT ![session_id] = session]
    /\ agent_session_ops' =
           [agent_session_ops EXCEPT
              ![session_id][agent_lens] = record_agent_op(dq, t)]
    /\ ops_log' = [ops_log EXCEPT ![session_id][agent_lens] = Append(@, t)]
    /\ agent_ops_total' = agent_ops_total + 1
    /\ now' = t
    /\ UNCHANGED aside
    /\ UNCHANGED current_session_id

---------------------------------------------------------------------------
(* The handlers, each behind server.handle_call_tool *)

(* start that makes the new session current only when none is *)
tool_start_collaborative_keeps_current(agentLenses) ==
    LET tool == "start_collaborative_reasoning"
        invalid == {i \in DOMAIN agentLenses : agentLenses[i] \notin AGENT_LENSES}
    IN  IF invalid # {}
        THEN Rejected(Err(tool, "invalid_agent_lenses", 0))
        ELSE IF Len(agentLenses) < 2
        THEN Rejected(Err(tool, "insufficient_agents", 0))
        ELSE LET session_id == Len(active_sessions) + 1
             IN  /\ session_id <= MaxSessions
                 /\ fuel > 0
                 /\ fuel' = fuel - 1
                 /\ active_sessions' =
                        Append(active_sessions, NewSession(session_id, agentLenses))
                 /\ current_session_id' =
                        IF current_session_id = NoId THEN session_id
                        ELSE current_session_id
                 /\ response' = Ok(tool, session_id)
                 /\ UNCHANGED aside
                 /\ UNCHANGED <<agent_session_ops, agent_ops_total, now, ops_log>>

tool_start_collaborative(agentLenses) ==
    LET tool == "start_collaborative_reasoning"
        invalid == {i \in DOMAIN agentLenses : agentLenses[i] \notin AGENT_LENSES}
    IN  IF invalid # {}
        THEN Rejected(Err(tool, "invalid_agent_lenses", 0))
        ELSE IF Len(agentLenses) < 2
        THEN Rejected(Err(tool, "insufficient_agents", 0))
        ELSE LET session_id == Len(active_sessions) + 1
             IN  /\ session_id <= MaxSessions
                 /\ fuel > 0
                 /\ fuel' = fuel - 1
                 /\ active_sessions' =
                        Append(active_sessions, NewSession(session_id, agentLenses))
                 /\ current_session_id' = session_id
                 /\ response' = Ok(tool, session_id)
                 /\ UNCHANGED aside
                 /\ UNCHANGED <<agent_session_ops, agent_ops_total, now, ops_log>>

tool_contribute(sessionId, agentLens, thought, buildsOn, weight, elapsed) ==
    LET tool == "contribute_perspective"
        session_id == ResolveSessionId(sessionId)
    IN  IF NoActiveSession(session_id)
        THEN Rejected(Err(tool, "no_active_session", 0))
        ELSE
        LET session == active_sessions[session_id]
            check == is_rate_limited(agent_session_ops[session_id][agentLens], now)
            unknown == FirstUnknown(session, buildsOn)
            added == add_thought(session,
                         CollaborativeThought(thought, agentLens, buildsOn,
                                              Clamp(0, 10, weight)))
        IN  IF AgentNotInSession(session, agentLens)
            THEN Rejected(Err(tool, "agent_not_in_session", 0))
            ELSE IF check.limited
            THEN RejectedAfterCheck(Err(tool, "rate_limited", 0),
                                    session_id, agentLens, check.dq)
            ELSE IF thought > max_thought_length
            THEN RejectedAfterCheck(Err(tool, "thought_too_long", 0),
                                    session_id, agentLens, check.dq)
            ELSE IF unknown # 0
            THEN RejectedAfterCheck(Err(tool, "invalid_buildsOn", buildsOn[unknown]),
                                    session_id, agentLens, check.dq)
            ELSE IF added.raised
            THEN RejectedAfterCheck(Err(tool, "internal_error", 0),
                                    session_id, agentLens, check.dq)
            ELSE Recorded(Ok(tool, added.id), session_id, added.session,
                          agentLens, check.dq, now + elapsed)

(* a challenge recorded for every negative level, note or no note *)
tool_endorse_challenge_unnoted(sessionId, thoughtId, agentLens, endorsementLevel, note, elapsed) ==
    LET tool == "endorse_or_challenge"
        session_id == ResolveSessionId(sessionId)
        endorsement_level == Clamp(-10, 10, endorsementLevel)
    IN  IF NoActiveSession(session_id)
        THEN Rejected(Err(tool, "no_active_session", 0))
        ELSE
        LET session == active_sessions[session_id]
            thought == get_thought(session, thoughtId)
            pos == session.thought_index[thoughtId]
            check == is_rate_limited(agent_session_ops[session_id][agentLens], now)
            challenge == [from_agent |-> agentLens, concern |-> note,
                          level |-> endorsement_level]
            endorsed ==
                [session EXCEPT
                   !.thoughts[pos].endorsements =
                       (agentLens :> endorsement_level) @@ @,
                   !.thoughts[pos].challenges =
                       IF endorsement_level < 0
                       THEN Append(@, challenge) ELSE @]
        IN  IF ~has_thought(session, thoughtId)
            THEN Rejected(Err(tool, "thought_not_found", thoughtId))
            ELSE IF AgentNotInSession(session, agentLens)
            THEN Rejected(Err(tool, "agent_not_in_session", 0))
            ELSE IF check.limited
            THEN RejectedAfterCheck(Err(tool, "rate_limited", 0),
                                    session_id, agentLens, check.dq)
            ELSE IF note # 0 /\ note > max_note_length
            THEN RejectedAfterCheck(Err(tool, "note_too_long", 0),
                                    session_id, agentLens, check.dq)
            ELSE IF IsSelfEndorsement(thought, agentLens)
            THEN RejectedAfterCheck(Err(tool, "self_endorsement_not_allowed", 0),
                                    session_id, agentLens, check.dq)
            ELSE IF MaxEndorsementsReached(thought)
            THEN RejectedAfterCheck(Err(tool, "max_endorsements_reached", 0),
                                    session_id, agentLens, check.dq)
            ELSE Recorded(Ok(tool, thoughtId), session_id, endorsed,
                          agentLens, check.dq, now + elapsed)

tool_endorse_challenge(sessionId, thoughtId, agentLens, endorsementLevel, note, elapsed) ==
    LET tool == "endorse_or_challenge"
        session_id == ResolveSessionId(sessionId)
        endorsement_level == Clamp(-10, 10, endorsementLevel)
    IN  IF NoActiveSession(session_id)
        THEN Rejected(Err(tool, "no_active_session", 0))
        ELSE
        LET session == active_sessions[session_id]
            thought == get_thought(session, thoughtId)
            pos == session.thought_index[thoughtId]
            check == is_rate_limited(agent_session_ops[session_id][agentLens], now)
            challenge == [from_agent |-> agentLens, concern |-> note,
                          level |-> endorsement_level]
            endorsed ==
                [session EXCEPT
                   !.thoughts[pos].endorsements =
                       (agentLens :> endorsement_level) @@ @,
                   !.thoughts[pos].challenges =
                       IF endorsement_level < 0 /\ note # 0
                       THEN Append(@, challenge) ELSE @]
        IN  IF ~has_thought(session, thoughtId)
            THEN Rejected(Err(tool, "thought_not_found", thoughtId))
            ELSE IF AgentNotInSession(session, agentLens)
            THEN Rejected(Err(tool, "agent_not_in_session", 0))
            ELSE IF check.limited
            THEN RejectedAfterCheck(Err(tool, "rate_limited", 0),
                                    session_id, agentLens, check.dq)
            ELSE IF note # 0 /\ note > max_note_length
            THEN RejectedAfterCheck(Err(tool, "note_too_long", 0),
                                    session_id, agentLens, check.dq)
            ELSE IF IsSelfEndorsement(thought, agentLens)
            THEN RejectedAfterCheck(Err(tool, "self_endorsement_not_allowed", 0),
                                    session_id, agentLens, check.dq)
            ELSE IF MaxEndorsementsReached(thought)
            THEN RejectedAfterCheck(Err(tool, "max_endorsements_reached", 0),
                                    session_id, agentLens, check.dq)
            ELSE Recorded(Ok(tool, thoughtId), session_id, endorsed,
                          agentLens, check.dq, now + elapsed)

tool_propose_integration(sessionId, agentLens, integration, reconcilesIsList, reconciles, elapsed) ==
    LET tool == "propose_integration"
        session_id == ResolveSessionId(sessionId)
    IN  IF NoActiveSession(session_id)
        THEN Rejected(Err(tool, "no_active_session", 0))
        ELSE
        LET session == active_sessions[session_id]
            check == is_rate_limited(agent_session_ops[session_id][agentLens], now)
            unknown == FirstUnknown(session, reconciles)
            added == add_integration(session,
                         IntegrationProposal(agentLens, integration, reconciles))
        IN  IF AgentNotInSession(session, agentLens)
            THEN Rejected(Err(tool, "agent_not_in_session", 0))
            ELSE IF check.limited
            THEN RejectedAfterCheck(Err(tool, "rate_limited", 0),
                                    session_id, agentLens, check.dq)
            ELSE IF integration > max_integration_length
            THEN RejectedAfterCheck(Err(tool, "integration_too_long", 0),
                                    session_id, agentLens, check.dq)
            ELSE IF ~reconcilesIsList
            THEN RejectedAfterCheck(Err(tool, "invalid_reconciles", 0),
                                    session_id, agentLens, check.dq)
            ELSE IF Len(reconciles) > max_reconciles_per_integration
            THEN RejectedAfterCheck(Err(tool, "too_many_reconciles", 0),
                                    session_id, agentLens, check.dq)
            ELSE IF unknown # 0
            THEN RejectedAfterCheck(Err(tool, "invalid_reconciles", reconciles[unknown]),
                                    session_id, agentLens, check.dq)
            ELSE Recorded(Ok(tool, added.id), session_id, added.session,
                          agentLens, check.dq, now + elapsed)

(* prunes every deque at now - window and reports the counts *)
tool_get_rate_status ==
    /\ agent_session_ops' =
           [s \in SessionIds |-> [a \in AGENT_LENSES |->
               PruneFront(agent_session_ops[s][a], now - rate_limit_window_seconds)]]
    /\ response' = Ok("get_rate_status", 0)
    /\ UNCHANGED aside
    /\ UNCHANGED <<active_sessions, current_session_id, agent_ops_total,
                   now, ops_log, fuel>>

(* clears the agent's deque in one session, or in all of them *)
tool_reset_agent_rate(agentLens, sessionId) ==
    /\ agent_session_ops' =
           [s \in SessionIds |-> [a \in AGENT_LENSES |->
               IF a = agentLens /\ (sessionId = NoId \/ sessionId = s)
               THEN <<>> ELSE agent_session_ops[s][a]]]
    /\ response' = Ok("reset_agent_rate", 0)
    /\ UNCHANGED aside
    /\ UNCHANGED <<active_sessions, current_session_id, agent_ops_total,
                   now, ops_log, fuel>>

(* time.time() moves on by d between two requests *)
Tick(d) ==
    /\ response = NoResponse
    /\ now + d <= MaxTime
    /\ now' = now + d
    /\ UNCHANGED aside
    /\ UNCHANGED <<active_sessions, current_session_id, agent_session_ops,
                   agent_ops_total, ops_log, response, fuel>>

---------------------------------------------------------------------------

(* Requests are handled one at a time (server.run reads a request, awaits
   handle_call_tool and writes its envelope): a request is taken once the
   envelope of the one before has been written out. *)
Deliver ==
    /\ response # NoResponse
    /\ response' = NoResponse
    /\ UNCHANGED aside
    /\ UNCHANGED <<active_sessions, current_session_id, agent_session_ops,
                   agent_ops_total, now, ops_log, fuel>>

StartCollaborative ==
    /\ response = NoResponse
    /\ \E agentLenses \in StartInputs : tool_start_collaborative(agentLenses)

(* elapsed: how far time.time() has moved on between the handler's
   is_rate_limited and its record_agent_op *)
Contribute ==
    /\ response = NoResponse
    /\ \E sessionId \in SessionIdInputs, agentLens \in LensInputs,
          thought \in ThoughtTextInputs, buildsOn \in BuildsOnInputs,
          weight \in WeightInputs :
           tool_contribute(sessionId, agentLens, thought, buildsOn, weight, 0)

EndorseChallenge ==
    /\ response = NoResponse
    /\ \E sessionId \in SessionIdInputs, thoughtId \in ThoughtIds,
          agentLens \in LensInputs, endorsementLevel \in LevelInputs,
          note \in NoteInputs :
           tool_endorse_challenge(sessionId, thoughtId, agentLens,
                                  endorsementLevel, note, 0)

ProposeIntegration ==
    /\ response = NoResponse
    /\ \E sessionId \in SessionIdInputs, agentLens \in LensInputs,
          integration \in IntegrationInputs, reconcilesIsList \in BOOLEAN,
          reconciles \in ReconcilesInputs :
           tool_propose_integration(sessionId, agentLens, integration,
                                    reconcilesIsList, reconciles, 0)

Next ==
    \/ StartCollaborative
    \/ Contribute
    \/ EndorseChallenge
    \/ ProposeIntegration
    \/ Deliver

(* The store: every request arrives within one reading of the clock *)
Spec == Init /\ [][Next]_vars

---------------------------------------------------------------------------
(* The rate limiter over time: one pair of lenses, one shape of thought,
   every kind of rejection, the clock moving between and within requests *)

RateLenses == <<"analytical", "skeptical">>
RateIds == {1, max_thoughts_per_session + 1}
RateElapsed == {0, 1}

RateStart ==
    /\ response = NoResponse
    /\ tool_start_collaborative(RateLenses)

RateContribute ==
    /\ response = NoResponse
    /\ \E agentLens \in LensInputs, thought \in ThoughtTextInputs,
          buildsOn \in {<<>>} \cup {<<i>> : i \in RateIds},
          elapsed \in RateElapsed :
           tool_contribute(NoId, agentLens, thought, buildsOn, 15, elapsed)

RateEndorseChallenge ==
    /\ response = NoResponse
    /\ \E thoughtId \in RateIds, agentLens \in LensInputs,
          note \in {1, max_note_length + 1}, elapsed \in RateElapsed :
           tool_endorse_challenge(NoId, thoughtId, agentLens, -15, note, elapsed)

RateProposeIntegration ==
    /\ response = NoResponse
    /\ \E agentLens \in LensInputs, integration \in IntegrationInputs,
          reconciles \in {<<>>} \cup {<<i>> : i \in RateIds},
          elapsed \in RateElapsed :
           tool_propose_integration(NoId, agentLens, integration, TRUE,
                                    reconciles, elapsed)

GetRateStatus ==
    /\ response = NoResponse
    /\ tool_get_rate_status

ResetAgentRate ==
    /\ response = NoResponse
    /\ \E agentLens \in LensInputs, sessionId \in SessionIdInputs :
           tool_reset_agent_rate(agentLens, sessionId)

NextRateNoReset ==
    \/ RateStart
    \/ RateContribute
    \/ RateEndorseChallenge
    \/ RateProposeIntegration
    \/ GetRateStatus
    \/ Deliver
    \/ Tick(1)

NextRate ==
    \/ NextRateNoReset
    \/ ResetAgentRate

SpecRate == InitRate /\ [][NextRate]_vars

SpecRateNoReset == InitRate /\ [][NextRateNoReset]_vars

---------------------------------------------------------------------------
(* Properties *)

Sessions == DOMAIN active_sessions

MutatingTools ==
    {"contribute_perspective", "endorse_or_challenge", "propose_integration"}

(* C1: in every session the thought ids are 1..N in list order, whatever
   contribute calls were rejected on the way. *)
C1_ThoughtIdsContiguous ==
    \A s \in Sessions :
        \A i \in DOMAIN active_sessions[s].thoughts :
            active_sessions[s].thoughts[i].thought_id = i

(* a session filled to its cap, whose last contribute call was turned away *)
C1_Witness ==
    /\ response.tool = "contribute_perspective"
    /\ response.status = "error"
    /\ \E s \in Sessions :
           Len(active_sessions[s].thoughts) = max_thoughts_per_session

(* C5: a contribute call on a session that resolves, by a lens that is no
   participant of it, returns agent_not_in_session and leaves the store as
   it was, whatever its other arguments and the state of the rate limiter. *)
C5_NonParticipantContribute ==
    [][ response'.tool = "contribute_perspective" =>
        \A sessionId \in SessionIdInputs, agentLens \in LensInputs,
           thought \in ThoughtTextInputs, buildsOn \in BuildsOnInputs,
           weight \in WeightInputs :
            LET session_id == IF sessionId # NoId THEN sessionId
                              ELSE current_session_id
            IN  ( /\ session_id \in Sessions
                  /\ agentLens \notin Range(active_sessions[session_id].agent_lenses) )
                => \/ /\ response' = Err("contribute_perspective",
                                         "agent_not_in_session", 0)
                      /\ active_sessions' = active_sessions
                   \/ ~tool_contribute(sessionId, agentLens, thought,
                                       buildsOn, weight, 0)
      ]_vars

(* a non-participant was turned away from a session that holds thoughts and
   in which a participant is rate limited *)
C5_Witness ==
    /\ response = Err("contribute_perspective", "agent_not_in_session", 0)
    /\ current_session_id \in Sessions
    /\ active_sessions[current_session_id].thoughts # <<>>
    /\ \E a \in Range(active_sessions[current_session_id].agent_lenses) :
           Len(agent_session_ops[current_session_id][a])
               >= rate_limit_ops_per_window

(* C2: with requests handled one at a time and no reset_agent_rate, for
   every session, agent and time t, at most rate_limit_ops_per_window of the
   agent's recorded operations (contribute, endorse_or_challenge and
   propose_integration together) have their timestamp in [t - window, t]. *)
C2_WindowBudget ==
    \A s \in SessionIds, a \in AGENT_LENSES, t \in 0..MaxTime :
        Cardinality({i \in DOMAIN ops_log[s][a] :
                        /\ t - rate_limit_window_seconds <= ops_log[s][a][i]
                        /\ ops_log[s][a][i] <= t})
            <= rate_limit_ops_per_window

(* an agent that has been admitted more often than one window allows, the
   last admission just answered *)
C2_Witness ==
    /\ response.status = "success"
    /\ response.tool \in MutatingTools
    /\ \E s \in Sessions, a \in AGENT_LENSES :
           Len(ops_log[s][a]) > rate_limit_ops_per_window

(* C3: is_rate_limited answers true exactly when at least
   rate_limit_ops_per_window of the timestamps recorded for the (session,
   agent) are not strictly older than now - window; once all of them are
   strictly older it answers false and leaves the deque empty. *)
C3_LimitedIffWindowFull ==
    \A s \in SessionIds, a \in AGENT_LENSES :
        LET recorded == ops_log[s][a]
            fresh == {i \in DOMAIN recorded :
                         ~(recorded[i] < now - rate_limit_window_seconds)}
            verdict == is_rate_limited(agent_session_ops[s][a], now)
        IN  /\ verdict.limited <=> Cardinality(fresh) >= rate_limit_ops_per_window
            /\ fresh = {} => ~verdict.limited /\ verdict.dq = <<>>

(* an agent that had filled its window, and whose deque a later call, not
   turned away by the limiter, has left empty *)
C3_Witness ==
    /\ response.status = "error"
    /\ response.error \in {"thought_too_long", "note_too_long",
                           "integration_too_long"}
    /\ \E s \in Sessions, a \in AGENT_LENSES :
           /\ Len(ops_log[s][a]) >= rate_limit_ops_per_window
           /\ agent_session_ops[s][a] = <<>>

IsSuffix(q, dq) ==
    \E k \in 0..Len(dq) : q = SubSeq(dq, k + 1, Len(dq))

(* C4: a contribute, endorse_or_challenge or propose_integration call that
   returns an error leaves every session as it was (thoughts, integrations,
   endorsements, challenges, both id counters) and appends no timestamp to
   any deque of the rate limiter: a deque is at most pruned at its front. *)
C4_RejectionChangesNothing ==
    [][ (response'.status = "error" /\ response'.tool \in MutatingTools) =>
            /\ active_sessions' = active_sessions
            /\ ops_log' = ops_log
            /\ agent_ops_total' = agent_ops_total
            /\ \A s \in SessionIds, a \in AGENT_LENSES :
                   IsSuffix(agent_session_ops'[s][a], agent_session_ops[s][a])
      ]_vars

(* the last check of endorse_or_challenge turned a call away *)
C4_Witness ==
    response = Err("endorse_or_challenge", "max_endorsements_reached", 0)

(* C6, as amended: endorse_or_challenge on an existing thought by its author
   always fails and leaves every session as it was; the error is
   self_endorsement_not_allowed unless the limiter turns the author away
   first (rate_limited) or, failing that, the note is too long
   (note_too_long). *)
C6_SelfEndorsementRejected ==
    [][ response'.tool = "endorse_or_challenge" =>
        \A sessionId \in SessionIdInputs, thoughtId \in ThoughtIds,
           agentLens \in LensInputs, endorsementLevel \in LevelInputs,
           note \in NoteInputs :
            LET session_id == IF sessionId # NoId THEN sessionId
                              ELSE current_session_id
            IN  ( /\ session_id \in Sessions
                  /\ thoughtId \in DOMAIN active_sessions[session_id].thought_index
                  /\ active_sessions[session_id].thoughts[
                         active_sessions[session_id].thought_index[thoughtId]
                       ].agent_lens = agentLens )
                => \/ /\ response'.status = "error"
                      /\ active_sessions' = active_sessions
                      /\ response'.error =
                           IF is_rate_limited(
                                  agent_session_ops[session_id][agentLens],
                                  now).limited
                           THEN "rate_limited"
                           ELSE IF note > max_note_length
                           THEN "note_too_long"
                           ELSE "self_endorsement_not_allowed"
                   \/ ~tool_endorse_challenge(sessionId, thoughtId, agentLens,
                                              endorsementLevel, note, 0)
      ]_vars

(* an author was turned away from its own thought for being its author *)
C6_Witness ==
    /\ response = Err("endorse_or_challenge", "self_endorsement_not_allowed", 0)
    /\ \E s \in Sessions : active_sessions[s].thoughts # <<>>

(* C6, as stated: endorse_or_challenge on an existing thought by its author
   always fails with self_endorsement_not_allowed, whatever the level, the
   note and the state of the limiter. *)
C6_AlwaysSelfEndorsementError ==
    [][ response'.tool = "endorse_or_challenge" =>
        \A sessionId \in SessionIdInputs, thoughtId \in ThoughtIds,
           agentLens \in LensInputs, endorsementLevel \in LevelInputs,
           note \in NoteInputs :
            LET session_id == IF sessionId # NoId THEN sessionId
                              ELSE current_session_id
            IN  ( /\ session_id \in Sessions
                  /\ thoughtId \in DOMAIN active_sessions[session_id].thought_index
                  /\ active_sessions[session_id].thoughts[
                         active_sessions[session_id].thought_index[thoughtId]
                       ].agent_lens = agentLens )
                => \/ /\ response' = Err("endorse_or_challenge",
                                         "self_endorsement_not_allowed", 0)
                      /\ active_sessions' = active_sessions
                   \/ ~tool_endorse_challenge(sessionId, thoughtId, agentLens,
                                              endorsementLevel, note, 0)
      ]_vars

(* C7: every key of every endorsement map is a participant of the thought's
   session other than the thought's author, so a thought has at most (number
   of distinct participants - 1) endorsers. *)
C7_EndorsersAreOtherParticipants ==
    \A s \in Sessions :
        LET session == active_sessions[s]
            participants == Range(session.agent_lenses)
        IN  \A k \in DOMAIN session.thoughts :
                LET endorsers == DOMAIN session.thoughts[k].endorsements
                IN  /\ endorsers \subseteq
                           participants \ {session.thoughts[k].agent_lens}
                    /\ Cardinality(endorsers) <= Cardinality(participants) - 1

(* a thought endorsed by every participant but its author *)
C7_Witness ==
    \E s \in Sessions :
        \E k \in DOMAIN active_sessions[s].thoughts :
            /\ Cardinality(DOMAIN active_sessions[s].thoughts[k].endorsements) = 2
            /\ Cardinality(Range(active_sessions[s].agent_lenses)) = 3

(* C8: a propose_integration call whose reconciles list holds an id that is
   no thought of the session fails, appends no proposal and leaves the
   proposal counter where it was; when the checks made before it pass
   (participant, limiter, length of the text, length of the list) the error
   is invalid_reconciles, naming an id that is no thought. *)
C8_UnknownReconcileRejected ==
    [][ response'.tool = "propose_integration" =>
        \A sessionId \in SessionIdInputs, agentLens \in LensInputs,
           integration \in IntegrationInputs, reconciles \in ReconcilesInputs :
            LET session_id == IF sessionId # NoId THEN sessionId
                              ELSE current_session_id
            IN  ( /\ session_id \in Sessions
                  /\ \E i \in DOMAIN reconciles :
                         reconciles[i] \notin
                             DOMAIN active_sessions[session_id].thought_index )
                => \/ /\ response'.status = "error"
                      /\ active_sessions' = active_sessions
                      /\ ( /\ agentLens \in
                                Range(active_sessions[session_id].agent_lenses)
                           /\ ~is_rate_limited(
                                   agent_session_ops[session_id][agentLens],
                                   now).limited
                           /\ integration <= max_integration_length
                           /\ Len(reconciles) <= max_reconciles_per_integration )
                         => /\ response'.error = "invalid_reconciles"
                            /\ response'.id \in Range(reconciles)
                            /\ response'.id \notin
                                 DOMAIN active_sessions[session_id].thought_index
                   \/ ~tool_propose_integration(sessionId, agentLens, integration,
                                                TRUE, reconciles, 0)
      ]_vars

(* a proposal naming a thought that does not exist was turned away from a
   session that already holds a thought and a proposal *)
C8_Witness ==
    /\ response.tool = "propose_integration"
    /\ response.error = "invalid_reconciles"
    /\ response.id # 0
    /\ \E s \in Sessions :
           /\ active_sessions[s].thoughts # <<>>
           /\ active_sessions[s].integrations # <<>>

(* C9: in every session the proposal ids are 1..M in list order; contribute
   never changes a next proposal id and propose_integration never changes a
   next thought id. *)
C9_ProposalIdsIndependent ==
    [][ /\ \A s \in DOMAIN active_sessions' :
               /\ \A i \in DOMAIN active_sessions'[s].integrations :
                      active_sessions'[s].integrations[i].proposal_id = i
               /\ active_sessions'[s].next_proposal_id =
                      Len(active_sessions'[s].integrations) + 1
        /\ response'.tool = "contribute_perspective" =>
               \A s \in Sessions :
                   active_sessions'[s].next_proposal_id =
                       active_sessions[s].next_proposal_id
        /\ response'.tool = "propose_integration" =>
               \A s \in Sessions :
                   active_sessions'[s].next_thought_id =
                       active_sessions[s].next_thought_id
      ]_vars

(* a session whose two counters have moved apart, a proposal just recorded *)
C9_Witness ==
    /\ response.tool = "propose_integration"
    /\ response.status = "success"
    /\ \E s \in Sessions :
           /\ Len(active_sessions[s].integrations) = 2
           /\ Len(active_sessions[s].thoughts) = 1

ThoughtIdsOf(session) ==
    {session.thoughts[k].thought_id : k \in DOMAIN session.thoughts}

(* C10: every builds_on id of thought k lies in 1..k-1, every reconciles id
   of a proposal is a thought the session held when the proposal was
   recorded, and a contribute call with any other id in buildsOn fails and
   changes no session, with invalid_buildsOn when the checks made before it
   pass (participant, limiter, length of the text). *)
C10_ReferencesResolve ==
    [][ /\ \A s \in DOMAIN active_sessions' :
               LET session == active_sessions'[s]
               IN  /\ \A k \in DOMAIN session.thoughts :
                          Range(session.thoughts[k].builds_on) \subseteq
                              1..(session.thoughts[k].thought_id - 1)
                   /\ \A p \in DOMAIN session.integrations :
                          Range(session.integrations[p].reconciles) \subseteq
                              ThoughtIdsOf(session)
        /\ (response'.tool = "propose_integration" /\ response'.status = "success") =>
               \A s \in Sessions :
                   \A p \in DOMAIN active_sessions'[s].integrations :
                       Range(active_sessions'[s].integrations[p].reconciles)
                           \subseteq ThoughtIdsOf(active_sessions[s])
        /\ response'.tool = "contribute_perspective" =>
           \A sessionId \in SessionIdInputs, agentLens \in LensInputs,
              thought \in ThoughtTextInputs, buildsOn \in BuildsOnInputs,
              weight \in WeightInputs :
               LET session_id == IF sessionId # NoId THEN sessionId
                                 ELSE current_session_id
               IN  ( /\ session_id \in Sessions
                     /\ \E i \in DOMAIN buildsOn :
                            buildsOn[i] \notin
                                ThoughtIdsOf(active_sessions[session_id]) )
                   => \/ /\ response'.status = "error"
                         /\ active_sessions' = active_sessions
                         /\ ( /\ agentLens \in
                                   Range(active_sessions[session_id].agent_lenses)
                              /\ ~is_rate_limited(
                                      agent_session_ops[session_id][agentLens],
                                      now).limited
                              /\ thought <= max_thought_length )
                            => /\ response'.error = "invalid_buildsOn"
                               /\ response'.id \in Range(buildsOn)
                               /\ response'.id \notin
                                    ThoughtIdsOf(active_sessions[session_id])
                      \/ ~tool_contribute(sessionId, agentLens, thought,
                                          buildsOn, weight, 0)
      ]_vars

(* a thought that would have built on itself was turned away from a session
   in which a thought builds on two earlier ones *)
C10_Witness ==
    /\ response.tool = "contribute_perspective"
    /\ response.error = "invalid_buildsOn"
    /\ \E s \in Sessions :
           /\ response.id = active_sessions[s].next_thought_id
           /\ \E k \in DOMAIN active_sessions[s].thoughts :
                  Len(active_sessions[s].thoughts[k].builds_on) = 2

---------------------------------------------------------------------------
(* The caps of add_thought: three lenses in one shape of session, thoughts
   that build on nothing, the clock moving between requests so that the
   limiter lets an agent come back *)

MaxCapCalls == 5

CapLenses == <<"analytical", "skeptical", "creative">>

InitCap ==
    /\ active_sessions = <<>>
    /\ current_session_id = NoId
    /\ agent_session_ops = [s \in SessionIds |-> [a \in AGENT_LENSES |-> <<>>]]
    /\ agent_ops_total = 0
    /\ now = 0
    /\ ops_log = [s \in SessionIds |-> [a \in AGENT_LENSES |-> <<>>]]
    /\ response = NoResponse
    /\ fuel = MaxCapCalls
    /\ EnsembleOnly

CapStart ==
    /\ response = NoResponse
    /\ tool_start_collaborative(CapLenses)

CapContribute ==
    /\ response = NoResponse
    /\ \E agentLens \in LensInputs, thought \in ThoughtTextInputs :
           tool_contribute(NoId, agentLens, thought, <<>>, 15, 0)

NextCap ==
    \/ CapStart
    \/ CapContribute
    \/ Deliver
    \/ Tick(1)

SpecCap == InitCap /\ [][NextCap]_vars

ThoughtsOf(session, agent_lens) ==
    {k \in DOMAIN session.thoughts : session.thoughts[k].agent_lens = agent_lens}

(* C11: a session never holds more than max_thoughts_per_session thoughts,
   nor more than max_thoughts_per_agent_per_session thoughts of one agent. *)
C11_ThoughtCaps ==
    \A s \in Sessions :
        /\ Len(active_sessions[s].thoughts) <= max_thoughts_per_session
        /\ \A a \in AGENT_LENSES :
               Cardinality(ThoughtsOf(active_sessions[s], a))
                   <= max_thoughts_per_agent_per_session

(* a session at its cap, one of its agents at the agent's cap, and a
   contribute call that add_thought has just refused *)
C11_Witness ==
    /\ response = Err("contribute_perspective", "internal_error", 0)
    /\ \E s \in Sessions :
           /\ Len(active_sessions[s].thoughts) = max_thoughts_per_session
           /\ \E a \in AGENT_LENSES :
                  Cardinality(ThoughtsOf(active_sessions[s], a))
                      = max_thoughts_per_agent_per_session

(* C12, as stated: a contribute call that passes every other check while
   the session, or the agent, is at its cap returns an error under a kind
   of its own (SessionCapacityExceeded, AgentCapacityExceeded), not under
   the dispatcher's catch-all internal_error. *)
C12_CapacityErrorKind ==
    [][ response'.tool = "contribute_perspective" =>
        \A agentLens \in LensInputs, thought \in ThoughtTextInputs :
            ( /\ current_session_id \in Sessions
              /\ agentLens \in
                   Range(active_sessions[current_session_id].agent_lenses)
              /\ ~is_rate_limited(
                      agent_session_ops[current_session_id][agentLens],
                      now).limited
              /\ thought <= max_thought_length
              /\ \/ Len(active_sessions[current_session_id].thoughts)
                        >= max_thoughts_per_session
                 \/ Cardinality(ThoughtsOf(active_sessions[current_session_id],
                                           agentLens))
                        >= max_thoughts_per_agent_per_session )
            => \/ /\ response'.status = "error"
                  /\ response'.error # "internal_error"
               \/ ~tool_contribute(NoId, agentLens, thought, <<>>, 15, 0)
      ]_vars

---------------------------------------------------------------------------
(* Sessions and the current session *)

(* C13: start fails (invalid_agent_lenses or insufficient_agents, the two
   kinds the code has for an invalid agent set) and leaves the store and
   the current session as they were when a label is outside AGENT_LENSES or
   fewer than 2 labels are given; otherwise it adds exactly one session
   under a fresh id, with empty lists and both counters at 1, makes it the
   current session and returns its id. *)
C13_StartCollaborative ==
    [][ response'.tool = "start_collaborative_reasoning" =>
        \A agentLenses \in StartInputs :
            \/ IF \/ \E i \in DOMAIN agentLenses : agentLenses[i] \notin AGENT_LENSES
                  \/ Len(agentLenses) < 2
               THEN /\ response'.status = "error"
                    /\ response'.error \in {"invalid_agent_lenses",
                                            "insufficient_agents"}
                    /\ active_sessions' = active_sessions
                    /\ current_session_id' = current_session_id
               ELSE \E id \in DOMAIN active_sessions' :
                    /\ id \notin DOMAIN active_sessions
                    /\ DOMAIN active_sessions' = DOMAIN active_sessions \cup {id}
                    /\ \A s \in DOMAIN active_sessions :
                           active_sessions'[s] = active_sessions[s]
                    /\ active_sessions'[id].session_id = id
                    /\ active_sessions'[id].agent_lenses = agentLenses
                    /\ active_sessions'[id].thoughts = <<>>
                    /\ active_sessions'[id].integrations = <<>>
                    /\ active_sessions'[id].next_thought_id = 1
                    /\ active_sessions'[id].next_proposal_id = 1
                    /\ current_session_id' = id
                    /\ response' = Ok("start_collaborative_reasoning", id)
            \/ ~tool_start_collaborative(agentLenses)
      ]_vars

(* a second session was started beside one that already holds a thought *)
C13_Witness ==
    /\ response = Ok("start_collaborative_reasoning", 2)
    /\ current_session_id = 2
    /\ Len(active_sessions) = 2
    /\ active_sessions[1].thoughts # <<>>

(* C14, as stated: the participants of every session are at least 2
   labels of AGENT_LENSES, no label occurring twice. *)
C14_ParticipantsDistinct ==
    \A s \in Sessions :
        LET agent_lenses == active_sessions[s].agent_lenses
        IN  /\ Len(agent_lenses) >= 2
            /\ Range(agent_lenses) \subseteq AGENT_LENSES
            /\ \A i, j \in DOMAIN agent_lenses :
                   i # j => agent_lenses[i] # agent_lenses[j]

CurrentIsLatest ==
    IF active_sessions = <<>>
    THEN current_session_id = NoId
    ELSE /\ current_session_id \in DOMAIN active_sessions
         /\ \A s \in DOMAIN active_sessions : s <= current_session_id

(* what a call that names no session may touch: the current session *)
OnlyCurrentTouched ==
    /\ current_session_id' = current_session_id
    /\ \A s \in DOMAIN active_sessions :
           s # current_session_id =>
               /\ active_sessions'[s] = active_sessions[s]
               /\ agent_session_ops'[s] = agent_session_ops[s]

OmittedIdOutcome(tool) ==
    IF current_session_id = NoId
    THEN /\ response' = Err(tool, "no_active_session", 0)
         /\ active_sessions' = active_sessions
         /\ current_session_id' = current_session_id
    ELSE /\ response'.error # "no_active_session"
         /\ OnlyCurrentTouched

(* C15: while no start has succeeded no session is current and every call
   that names no session fails with no_active_session; afterwards exactly
   one session is current, it is in the store, it is the one started last
   (session ids are numbered in the order of the starts), and a call that
   names no session acts on it and on no other. *)
C15_CurrentSession ==
    [][ /\ CurrentIsLatest
        /\ CurrentIsLatest'
        /\ (response'.tool = "start_collaborative_reasoning"
              /\ response'.status = "success")
             => current_session_id' = response'.id
        /\ response'.tool = "contribute_perspective" =>
             \A agentLens \in LensInputs, thought \in ThoughtTextInputs,
                buildsOn \in BuildsOnInputs, weight \in WeightInputs :
                 \/ OmittedIdOutcome("contribute_perspective")
                 \/ ~tool_contribute(NoId, agentLens, thought, buildsOn, weight, 0)
        /\ response'.tool = "endorse_or_challenge" =>
             \A thoughtId \in ThoughtIds, agentLens \in LensInputs,
                endorsementLevel \in LevelInputs, note \in NoteInputs :
                 \/ OmittedIdOutcome("endorse_or_challenge")
                 \/ ~tool_endorse_challenge(NoId, thoughtId, agentLens,
                                            endorsementLevel, note, 0)
        /\ response'.tool = "propose_integration" =>
             \A agentLens \in LensInputs, integration \in IntegrationInputs,
                reconcilesIsList \in BOOLEAN, reconciles \in ReconcilesInputs :
                 \/ OmittedIdOutcome("propose_integration")
                 \/ ~tool_propose_integration(NoId, agentLens, integration,
                                              reconcilesIsList, reconciles, 0)
      ]_vars

(* two sessions, the second current and alone in holding a thought, a
   contribute call just answered *)
C15_Witness ==
    /\ response = Ok("contribute_perspective", 1)
    /\ Len(active_sessions) = 2
    /\ current_session_id = 2
    /\ active_sessions[1].thoughts = <<>>
    /\ Len(active_sessions[2].thoughts) = 1

---------------------------------------------------------------------------
(* utils.detect_cycles, on sessions built thought by thought with any
   builds_on at all (EnsembleSession does not validate it; the handlers do) *)

MaxCycleThoughts == 3
MaxDeps == 2

\* the ids of the thoughts, and one id that is no thought
CycleIds == 1..(MaxCycleThoughts + 1)

DepsInputs ==
    UNION {[1..n -> CycleIds] : n \in 0..MaxDeps}

Orders(n) ==
    {o \in [1..n -> 1..n] : \A i, j \in 1..n : i # j => o[i] # o[j]}

\* a session whose thoughts are listed in the order o, thought id building
\* on deps[id]
GraphSession(o, deps) ==
    [ NewSession(1, <<"analytical", "skeptical">>) EXCEPT
        !.thoughts = [k \in DOMAIN o |->
                        [ CollaborativeThought(1, "analytical", deps[o[k]], 10)
                            EXCEPT !.thought_id = o[k] ]],
        !.thought_index = [id \in DOMAIN o |->
                             CHOOSE k \in DOMAIN o : o[k] = id],
        !.next_thought_id = Len(o) + 1 ]

Reverse(seq) == [i \in DOMAIN seq |-> seq[Len(seq) + 1 - i]]

(* _normalize_cycle that leaves the cycle as it was found *)
NormalizeCycle_identity(cycle) == cycle

(* _normalize_cycle: rotate so that the smallest id comes first *)
NormalizeCycle(cycle) ==
    IF cycle = <<>> THEN <<>>
    ELSE LET m == CHOOSE x \in Range(cycle) : \A y \in Range(cycle) : x <= y
             i == CHOOSE k \in DOMAIN cycle :
                      cycle[k] = m /\ \A l \in 1..(k - 1) : cycle[l] # m
         IN  SubSeq(cycle, i, Len(cycle)) \o SubSeq(cycle, 1, i - 1)

RECURSIVE ClimbParents(_, _, _, _)
(* while cur != dep and cur in parent: cycle.append(cur); cur = parent[cur]
   (parent[x] = 0: x is no key of parent) *)
ClimbParents(parent, dep, cur, cycle) ==
    IF cur # dep /\ parent[cur] # 0
    THEN ClimbParents(parent, dep, parent[cur], Append(cycle, cur))
    ELSE [cur |-> cur, cycle |-> cycle]

(* the cycle kept in the order of the climb, reversed() left out *)
BackEdgeCycles_unreversed(parent, node, dep) ==
    LET climbed == ClimbParents(parent, dep, node, <<dep>>)
    IN  IF climbed.cur = dep
        THEN {NormalizeCycle(climbed.cycle)}
        ELSE {}

(* the back edge node -> dep: the cycle it closes, if the climb ends at dep *)
BackEdgeCycles(parent, node, dep) ==
    LET climbed == ClimbParents(parent, dep, node, <<dep>>)
    IN  IF climbed.cur = dep
        THEN {NormalizeCycle(Reverse(climbed.cycle))}
        ELSE {}

(* deps = thought.builds_on if thought else [] *)
DepsOf(session, node) ==
    IF has_thought(session, node)
    THEN get_thought(session, node).builds_on
    ELSE <<>>

RECURSIVE WhileStack(_, _)
(* while stack: ...  One call is one iteration; st.steps counts them. *)
WhileStack(session, st) ==
    IF st.stack = <<>> THEN st
    ELSE
    LET top  == Len(st.stack)
        node == st.stack[top][1]
        idx  == st.stack[top][2]
        deps == DepsOf(session, node)
    IN  IF idx >= Len(deps)
        THEN WhileStack(session,
                 [st EXCEPT !.color[node] = 2,
                            !.stack = SubSeq(@, 1, top - 1),
                            !.steps = @ + 1])
        ELSE
        LET dep      == deps[idx + 1]
            advanced == [st.stack EXCEPT ![top] = <<node, idx + 1>>]
        IN  IF st.color[dep] = 0
            THEN WhileStack(session,
                     [st EXCEPT !.parent[dep] = node,
                                !.color[dep] = 1,
                                !.stack = Append(advanced, <<dep, 0>>),
                                !.steps = @ + 1])
            ELSE IF st.color[dep] = 1
            THEN WhileStack(session,
                     [st EXCEPT !.stack = advanced,
                                !.cycles_set =
                                    @ \cup BackEdgeCycles(st.parent, node, dep),
                                !.steps = @ + 1])
            ELSE WhileStack(session,
                     [st EXCEPT !.stack = advanced, !.steps = @ + 1])

RECURSIVE ForStart(_, _, _)
(* for start in [t.thought_id for t in session.thoughts]: ... *)
ForStart(session, k, st) ==
    IF k > Len(session.thoughts) THEN st
    ELSE LET start == session.thoughts[k].thought_id
         IN  IF st.color[start] # 0
             THEN ForStart(session, k + 1, st)
             ELSE ForStart(session, k + 1,
                      WhileStack(session,
                          [st EXCEPT !.color[start] = 1,
                                     !.parent[start] = 0,
                                     !.stack = <<<<start, 0>>>>]))

(* Python's order on tuples *)
RECURSIVE TupleLess(_, _)
TupleLess(a, b) ==
    IF a = <<>> THEN b # <<>>
    ELSE IF b = <<>> THEN FALSE
    ELSE IF Head(a) # Head(b) THEN Head(a) < Head(b)
    ELSE TupleLess(Tail(a), Tail(b))

RECURSIVE Sorted(_)
(* sorted(cycles_set) *)
Sorted(tuples) ==
    IF tuples = {} THEN <<>>
    ELSE LET m == CHOOSE x \in tuples :
                      \A y \in tuples \ {x} : TupleLess(x, y)
         IN  <<m>> \o Sorted(tuples \ {m})

(* the search as it ends: colours, parents, the cycles found, and how many
   times the body of the while loop ran *)
DetectCyclesRun(session) ==
    ForStart(session, 1,
        [ color      |-> [id \in CycleIds |-> 0],
          parent     |-> [id \in CycleIds |-> 0],
          stack      |-> <<>>,
          cycles_set |-> {},
          steps      |-> 0 ])

detect_cycles(session) == Sorted(DetectCyclesRun(session).cycles_set)

InitCycles ==
    /\ \E n \in 0..MaxCycleThoughts :
           \E o \in Orders(n), deps \in [1..n -> DepsInputs] :
               active_sessions = <<GraphSession(o, deps)>>
    /\ current_session_id = 1
    /\ agent_session_ops = [s \in SessionIds |-> [a \in AGENT_LENSES |-> <<>>]]
    /\ agent_ops_total = 0
    /\ now = 0
    /\ ops_log = [s \in SessionIds |-> [a \in AGENT_LENSES |-> <<>>]]
    /\ response = NoResponse
    /\ fuel = 0
    /\ EnsembleOnly

DetectCycles ==
    /\ response = NoResponse
    /\ response' = [ tool   |-> "detect_cycles",
                     status |-> "success",
                     error  |-> "",
                     id     |-> 0,
                     cycles |-> detect_cycles(active_sessions[1]),
                     steps  |-> DetectCyclesRun(active_sessions[1]).steps ]
    /\ UNCHANGED aside
    /\ UNCHANGED <<active_sessions, current_session_id, agent_session_ops,
                   agent_ops_total, now, ops_log, fuel>>

NextCycles ==
    \/ DetectCycles
    \/ Deliver

SpecCycles == InitCycles /\ [][NextCycles]_vars

(* The builds_on graph, read off the thought list *)
EdgesOf(session) ==
    UNION { { <<session.thoughts[k].thought_id, d>> :
                d \in Range(session.thoughts[k].builds_on) } :
            k \in DOMAIN session.thoughts }

RECURSIVE ReachedFrom(_, _)
ReachedFrom(edges, seen) ==
    LET more == {e[2] : e \in {f \in edges : f[1] \in seen}} \ seen
    IN  IF more = {} THEN seen ELSE ReachedFrom(edges, seen \cup more)

\* b is reached from a along one edge or more
Reaches(session, a, b) ==
    LET first == {e[2] : e \in {f \in EdgesOf(session) : f[1] = a}}
    IN  first # {} /\ b \in ReachedFrom(EdgesOf(session), first)

HasDirectedCycle(session) ==
    \E n \in ThoughtIdsOf(session) : Reaches(session, n, n)

IsCycleOf(session, c) ==
    /\ c # <<>>
    /\ \A i \in DOMAIN c :
           <<c[i], c[(i % Len(c)) + 1]>> \in EdgesOf(session)

\* the simple cycles of the graph, each in the rotation that starts at its
\* smallest id
SimpleCycles(session) ==
    { c \in UNION {[1..k -> ThoughtIdsOf(session)] :
                      k \in 1..Cardinality(ThoughtIdsOf(session))} :
        /\ \A i, j \in DOMAIN c : i # j => c[i] # c[j]
        /\ \A i \in DOMAIN c : c[1] <= c[i]
        /\ IsCycleOf(session, c) }

\* the graph is one simple cycle through all its thoughts and nothing else
IsOneCycle(session, c) ==
    /\ c \in SimpleCycles(session)
    /\ Range(c) = ThoughtIdsOf(session)
    /\ \A k \in DOMAIN session.thoughts : Len(session.thoughts[k].builds_on) = 1

BuildsOnOf(session, id) ==
    session.thoughts[CHOOSE k \in DOMAIN session.thoughts :
                         session.thoughts[k].thought_id = id].builds_on

(* C16: detect_cycles returns the empty list exactly when the builds_on
   graph has no directed cycle; a graph that is one simple cycle yields
   that cycle alone, from its smallest id on, in whatever order the
   thoughts are listed (1->[2], 2->[3], 3->[1] yields [[1,2,3]]), and
   1->[2], 2->[] yields none. *)
C16_CyclesIffCyclic ==
    response.tool = "detect_cycles" =>
        LET session == active_sessions[1]
            cycles  == response.cycles
        IN  /\ (cycles = <<>>) <=> ~HasDirectedCycle(session)
            /\ \A c \in SimpleCycles(session) :
                   IsOneCycle(session, c) => cycles = <<c>>
            /\ ( /\ ThoughtIdsOf(session) = {1, 2, 3}
                 /\ BuildsOnOf(session, 1) = <<2>>
                 /\ BuildsOnOf(session, 2) = <<3>>
                 /\ BuildsOnOf(session, 3) = <<1>> )
               => cycles = << <<1, 2, 3>> >>
            /\ ( /\ ThoughtIdsOf(session) = {1, 2}
                 /\ BuildsOnOf(session, 1) = <<2>>
                 /\ BuildsOnOf(session, 2) = <<>> )
               => cycles = <<>>

(* 1->[2], 2->[3], 3->[1] with thought 3 listed first, and its one cycle
   reported *)
C16_Witness ==
    /\ response.tool = "detect_cycles"
    /\ response.cycles = << <<1, 2, 3>> >>
    /\ Len(active_sessions[1].thoughts) = 3
    /\ active_sessions[1].thoughts[1].thought_id = 3
    /\ BuildsOnOf(active_sessions[1], 1) = <<2>>
    /\ BuildsOnOf(active_sessions[1], 2) = <<3>>
    /\ BuildsOnOf(active_sessions[1], 3) = <<1>>

(* C17: every simple directed cycle of the builds_on graph is in the list
   detect_cycles returns, in its canonical rotation, also when it shares
   thoughts or edges with another cycle.  (The search never follows an edge
   into a thought it has finished: with 1->[2,3], 2->[3], 3->[1] it returns
   [[1,2,3]] and leaves [1,3] out.) *)
C17_AllSimpleCyclesReported ==
    response.tool = "detect_cycles" =>
        \A c \in SimpleCycles(active_sessions[1]) :
            c \in Range(response.cycles)

IsRotation(a, b) ==
    /\ Len(a) = Len(b)
    /\ \E k \in 0..(Len(a) - 1) :
           \A i \in DOMAIN a : b[i] = a[((i - 1 + k) % Len(a)) + 1]

RECURSIVE SumOfLens(_, _)
SumOfLens(thoughts, k) ==
    IF k > Len(thoughts) THEN 0
    ELSE Len(thoughts[k].builds_on) + SumOfLens(thoughts, k + 1)

(* C18: every list detect_cycles returns is a cycle of the builds_on graph
   in traversal order (each element builds on the next, the last on the
   first) without a repeated thought, starts at its smallest id, and the
   result is in strictly increasing order with no two entries that are
   rotations of one another; the search ends, after at most one iteration
   per id met and one per builds_on entry, also with self-loops and with
   references to ids that are no thoughts. *)
C18_CyclesGenuineCanonicalOnce ==
    response.tool = "detect_cycles" =>
        LET session == active_sessions[1]
            cycles  == response.cycles
        IN  /\ \A i \in DOMAIN cycles :
                   /\ IsCycleOf(session, cycles[i])
                   /\ \A k, l \in DOMAIN cycles[i] :
                          k # l => cycles[i][k] # cycles[i][l]
                   /\ \A k \in DOMAIN cycles[i] : cycles[i][1] <= cycles[i][k]
            /\ \A i, j \in DOMAIN cycles :
                   i < j => /\ TupleLess(cycles[i], cycles[j])
                            /\ ~IsRotation(cycles[i], cycles[j])
            /\ response.steps <= Cardinality(CycleIds)
                                   + SumOfLens(session.thoughts, 1)

(* a self-loop and a longer cycle reported for a graph that also refers to
   an id that is no thought *)
C18_Witness ==
    /\ response.tool = "detect_cycles"
    /\ Len(response.cycles) >= 2
    /\ \E i \in DOMAIN response.cycles : Len(response.cycles[i]) = 1
    /\ \E i \in DOMAIN response.cycles : Len(response.cycles[i]) >= 2
    /\ \E e \in EdgesOf(active_sessions[1]) :
           e[2] \notin ThoughtIdsOf(active_sessions[1])

----------------------------------------------------------------------------
(* modules/utils.py: calculate_consensus, identify_tensions,
   compute_convergence_score, and tools.tool_synthesize that reports them.
   Endorsement levels and thresholds are in tenths, the rounded figures of
   the report in hundredths. *)

MaxSynthThoughts == 3
MaxSynthValues == 3

default_synthesis_threshold == 6
positive_endorsement_threshold == 5
negative_endorsement_threshold == -5

SynthLensInputs == {<<"analytical", "skeptical">>, CapLenses}
\* levels whose sums over up to four values are never halfway between two
\* hundredths when divided by their number
EndorsementInputs == {-10, 0, 8, 10}
\* the threshold argument: <<>> when the request leaves it out
ThresholdInputs == {<<>>, <<0>>, <<8>>, <<10>>}

RECURSIVE SumOf(_)
(* sum(values) *)
SumOf(endorsements) ==
    IF DOMAIN endorsements = {} THEN 0
    ELSE LET a == CHOOSE x \in DOMAIN endorsements : TRUE
         IN  endorsements[a]
               + SumOf([x \in DOMAIN endorsements \ {a} |-> endorsements[x]])

(* round(n / den), an integer: the nearest one, the even one of two that
   are equally near *)
RoundDiv(n, den) ==
    LET lo  == n \div den
        rem == n % den
    IN  IF 2 * rem < den THEN lo
        ELSE IF 2 * rem > den THEN lo + 1
        ELSE IF lo % 2 = 0 THEN lo ELSE lo + 1

(* the running totals that count one per endorsed thought *)
AccumulateEndorsements_per_thought(acc, endorsements) ==
    [acc EXCEPT !.sum = @ + SumOf(endorsements),
                !.count = @ + 1]

(* sum_endorsements += sum(values); count_endorsements += len(values) *)
AccumulateEndorsements(acc, endorsements) ==
    [acc EXCEPT !.sum = @ + SumOf(endorsements),
                !.count = @ + Cardinality(DOMAIN endorsements)]

(* the comparison made strict *)
MeetsThreshold_strict(endorsements, threshold) ==
    SumOf(endorsements) > threshold * Cardinality(DOMAIN endorsements)

(* avg_endorsement >= threshold, with avg_endorsement = sum(values) / len(values) *)
MeetsThreshold(endorsements, threshold) ==
    SumOf(endorsements) >= threshold * Cardinality(DOMAIN endorsements)

RECURSIVE ConsensusLoop(_, _, _, _)
(* for thought in session.thoughts: ... *)
ConsensusLoop(thoughts, k, threshold, acc) ==
    IF k > Len(thoughts) THEN acc
    ELSE LET thought == thoughts[k]
             values  == thought.endorsements
             entry   == [ thought_id |-> thought.thought_id,
                          agent      |-> thought.agent_lens,
                          thought    |-> Min(thought.thought, 100),
                          agreement  |-> RoundDiv(10 * SumOf(values),
                                                  Cardinality(DOMAIN values)) ]
             summed  == AccumulateEndorsements(acc, values)
         IN  IF DOMAIN values = {}
             THEN ConsensusLoop(thoughts, k + 1, threshold, acc)
             ELSE ConsensusLoop(thoughts, k + 1, threshold,
                      IF MeetsThreshold(values, threshold)
                      THEN [summed EXCEPT !.consensus_thoughts = Append(@, entry)]
                      ELSE summed)

calculate_consensus(session, threshold) ==
    IF Len(session.thoughts) < 2
    THEN [consensus_thoughts |-> <<>>, avg_agreement |-> 0]
    ELSE LET acc == ConsensusLoop(session.thoughts, 1, threshold,
                        [consensus_thoughts |-> <<>>, sum |-> 0, count |-> 0])
         IN  [ consensus_thoughts |-> acc.consensus_thoughts,
               avg_agreement |->
                   IF acc.count # 0 THEN RoundDiv(10 * acc.sum, acc.count)
                   ELSE 0 ]

(* the supporters taken by the size of the value, whatever its sign *)
Positive_by_magnitude(endorsements) ==
    {a \in DOMAIN endorsements :
        \/ endorsements[a] >= positive_endorsement_threshold
        \/ -endorsements[a] >= positive_endorsement_threshold}

Positive(endorsements) ==
    {a \in DOMAIN endorsements : endorsements[a] >= positive_endorsement_threshold}

(* the challengers taken strictly below the negative threshold *)
Negative_strict(endorsements) ==
    {a \in DOMAIN endorsements : endorsements[a] < negative_endorsement_threshold}

Negative(endorsements) ==
    {a \in DOMAIN endorsements : endorsements[a] <= negative_endorsement_threshold}

RECURSIVE identify_tensions_from(_, _)
identify_tensions_from(thoughts, k) ==
    IF k > Len(thoughts) THEN <<>>
    ELSE LET thought == thoughts[k]
             entry == [ thought_id  |-> thought.thought_id,
                        agent       |-> thought.agent_lens,
                        thought     |-> Min(thought.thought, 100),
                        supporters  |-> Cardinality(Positive(thought.endorsements)),
                        challengers |-> Cardinality(Negative(thought.endorsements)),
                        challenges  |-> thought.challenges ]
         IN  IF Positive(thought.endorsements) # {}
                  /\ Negative(thought.endorsements) # {}
             THEN <<entry>> \o identify_tensions_from(thoughts, k + 1)
             ELSE identify_tensions_from(thoughts, k + 1)

identify_tensions(session) == identify_tensions_from(session.thoughts, 1)

RECURSIVE CountEndorsements(_, _)
(* total_endorsements and positive_endorsements after the thoughts from k on *)
CountEndorsements(thoughts, k) ==
    IF k > Len(thoughts) THEN [total |-> 0, positive |-> 0]
    ELSE LET rest == CountEndorsements(thoughts, k + 1)
         IN  [ total    |-> Cardinality(DOMAIN thoughts[k].endorsements) + rest.total,
               positive |-> Cardinality(Positive(thoughts[k].endorsements))
                              + rest.positive ]

(* the score computed from 2 thoughts on *)
compute_convergence_score_from_two(session) ==
    LET n == CountEndorsements(session.thoughts, 1)
    IN  IF Len(session.thoughts) < 2 THEN [num |-> 0, den |-> 1]
        ELSE IF n.total = 0 THEN [num |-> 0, den |-> 1]
        ELSE [num |-> n.positive, den |-> n.total]

(* the score as the fraction num / den *)
compute_convergence_score(session) ==
    LET n == CountEndorsements(session.thoughts, 1)
    IN  IF Len(session.thoughts) < 3 THEN [num |-> 0, den |-> 1]
        ELSE IF n.total = 0 THEN [num |-> 0, den |-> 1]
        ELSE [num |-> n.positive, den |-> n.total]

(* a synthesize that asks the rate limiter about the participants first *)
tool_synthesize_rate_limited(sessionId, thresholdArg) ==
    LET tool == "synthesize"
        session_id == ResolveSessionId(sessionId)
    IN  IF NoActiveSession(session_id)
        THEN Rejected(Err(tool, "no_active_session", 0))
        ELSE IF \E a \in Range(active_sessions[session_id].agent_lenses) :
                    is_rate_limited(agent_session_ops[session_id][a], now).limited
        THEN Rejected(Err(tool, "rate_limited", 0))
        ELSE Rejected(Ok(tool, session_id))

tool_synthesize(sessionId, thresholdArg) ==
    LET tool == "synthesize"
        session_id == ResolveSessionId(sessionId)
    IN  IF NoActiveSession(session_id)
        THEN Rejected(Err(tool, "no_active_session", 0))
        ELSE
        LET session == active_sessions[session_id]
            threshold == IF thresholdArg = <<>> THEN default_synthesis_threshold
                         ELSE thresholdArg[1]
            convergence == compute_convergence_score(session)
        IN  Rejected(
              [ tool   |-> tool,
                status |-> "success",
                error  |-> "",
                id     |-> session_id,
                convergenceScore   |-> RoundDiv(100 * convergence.num, convergence.den),
                consensus          |-> calculate_consensus(session, threshold),
                tensions           |-> identify_tensions(session),
                circularReasoning  |-> detect_cycles(session),
                totalThoughts      |-> Len(session.thoughts),
                agentContributions |->
                    [a \in Range(session.agent_lenses) |->
                        Len(session.agent_thoughts[a])] ])

RECURSIVE AddThoughts(_, _, _)
\* the session after its agents contributed one thought each, in this order
AddThoughts(session, authors, k) ==
    IF k > Len(authors) THEN session
    ELSE AddThoughts(
             add_thought(session,
                 CollaborativeThought(1, authors[k], <<>>, 10)).session,
             authors, k + 1)

\* the challenge records of the negative levels, each given with a note
ChallengesOf(agent_lenses, endorsements) ==
    LET IsChallenge(a) == a \in DOMAIN endorsements /\ endorsements[a] < 0
        from == SelectSeq(agent_lenses, IsChallenge)
    IN  [i \in DOMAIN from |->
            [from_agent |-> from[i], concern |-> 1, level |-> endorsements[from[i]]]]

\* a session of the agents agent_lenses, thought k by authors[k], endorsed by
\* the agents and at the levels of vals
SynthSession(agent_lenses, authors, vals) ==
    LET session == AddThoughts(NewSession(1, agent_lenses), authors, 1)
        EndorsementsOf(k) ==
            [a \in {x \in Range(agent_lenses) : <<k, x>> \in DOMAIN vals} |->
                vals[<<k, a>>]]
    IN  [session EXCEPT
           !.thoughts =
               [k \in DOMAIN @ |->
                   [@[k] EXCEPT
                      !.endorsements = EndorsementsOf(k),
                      !.challenges = ChallengesOf(agent_lenses, EndorsementsOf(k))]]]

\* one session of up to MaxSynthThoughts thoughts, endorsed at up to
\* MaxSynthValues levels drawn from levels
InitSessions(levels) ==
    /\ \E agent_lenses \in SynthLensInputs, n \in 0..MaxSynthThoughts :
         \E authors \in [1..n -> Range(agent_lenses)] :
           \E slots \in SUBSET ((1..n) \X Range(agent_lenses)) :
             /\ Cardinality(slots) <= MaxSynthValues
             /\ \A slot \in slots : slot[2] # authors[slot[1]]
             /\ \A k \in 1..n :
                    Cardinality({slot \in slots : slot[1] = k})
                        <= max_endorsements_per_thought
             /\ Len(AddThoughts(NewSession(1, agent_lenses), authors, 1).thoughts) = n
             /\ \E vals \in [slots -> levels] :
                    active_sessions = <<SynthSession(agent_lenses, authors, vals)>>
    /\ current_session_id = 1
    /\ agent_session_ops = [s \in SessionIds |-> [a \in AGENT_LENSES |-> <<>>]]
    /\ agent_ops_total = 0
    /\ now = 0
    /\ ops_log = [s \in SessionIds |-> [a \in AGENT_LENSES |-> <<>>]]
    /\ response = NoResponse
    /\ fuel = 0
    /\ EnsembleOnly

InitSynth == InitSessions(EndorsementInputs)

Synthesize ==
    /\ response = NoResponse
    /\ \E sessionId \in SessionIdInputs, threshold \in ThresholdInputs :
           tool_synthesize(sessionId, threshold)

NextSynth ==
    \/ Synthesize
    \/ Deliver

SpecSynth == InitSynth /\ [][NextSynth]_vars

\* every endorsement of the session: <<position of the thought, endorser>>
EndorsementSlots(session) ==
    UNION { {<<k, a>> : a \in DOMAIN session.thoughts[k].endorsements} :
            k \in DOMAIN session.thoughts }

RECURSIVE LevelTotal(_, _)
LevelTotal(session, slots) ==
    IF slots = {} THEN 0
    ELSE LET slot == CHOOSE x \in slots : TRUE
         IN  session.thoughts[slot[1]].endorsements[slot[2]]
               + LevelTotal(session, slots \ {slot})

Abs(x) == IF x < 0 THEN -x ELSE x

\* thought A endorsed once at 1.0, thought B twice at 0.0
OneAndTwoZeros(session) ==
    /\ Len(session.thoughts) = 2
    /\ Cardinality(DOMAIN session.thoughts[1].endorsements) = 1
    /\ \A a \in DOMAIN session.thoughts[1].endorsements :
           session.thoughts[1].endorsements[a] = 10
    /\ Cardinality(DOMAIN session.thoughts[2].endorsements) = 2
    /\ \A a \in DOMAIN session.thoughts[2].endorsements :
           session.thoughts[2].endorsements[a] = 0

(* C19, as stated: the overall average is exactly (sum of all endorsement
   values) / (number of endorsement values), and 0.0 for a session of fewer
   than 2 thoughts or without endorsements. *)
C19_OverallAverageExact ==
    (response.tool = "synthesize" /\ response.status = "success") =>
        LET session == active_sessions[response.id]
            slots   == EndorsementSlots(session)
            avg     == response.consensus.avg_agreement
        IN  IF Len(session.thoughts) < 2 \/ slots = {}
            THEN avg = 0
            ELSE avg * Cardinality(slots) = 10 * LevelTotal(session, slots)

(* C19, as amended: the overall average is (sum of all endorsement values)
   / (number of endorsement values) rounded to two decimals (the nearest
   hundredth), not the mean of the per-thought means (thought A [1.0] and
   thought B [0.0, 0.0] give 0.33, not 0.5), and 0.0 for a session of fewer
   than 2 thoughts or without endorsements. *)
C19_OverallAverageRounded ==
    (response.tool = "synthesize" /\ response.status = "success") =>
        LET session == active_sessions[response.id]
            slots   == EndorsementSlots(session)
            avg     == response.consensus.avg_agreement
        IN  /\ IF Len(session.thoughts) < 2 \/ slots = {}
               THEN avg = 0
               ELSE 2 * Abs(avg * Cardinality(slots)
                              - 10 * LevelTotal(session, slots))
                        < Cardinality(slots)
            /\ OneAndTwoZeros(session) => avg = 33

(* thought A [1.0] and thought B [0.0, 0.0], reported with 0.33 *)
C19_Witness ==
    /\ response.tool = "synthesize"
    /\ response.status = "success"
    /\ OneAndTwoZeros(active_sessions[response.id])
    /\ response.consensus.avg_agreement = 33

\* the ids of the thoughts with an endorsement and a mean level >= threshold,
\* in thought order
Qualifying(session, threshold) ==
    LET Qualifies(thought) ==
            /\ DOMAIN thought.endorsements # {}
            /\ LevelTotal([thoughts |-> <<thought>>],
                          {<<1, a>> : a \in DOMAIN thought.endorsements})
                   >= threshold * Cardinality(DOMAIN thought.endorsements)
        chosen == SelectSeq(session.thoughts, Qualifies)
    IN  [i \in DOMAIN chosen |-> chosen[i].thought_id]

ConsensusIds(envelope) ==
    [i \in DOMAIN envelope.consensus.consensus_thoughts |->
        envelope.consensus.consensus_thoughts[i].thought_id]

ThresholdOf(thresholdArg) ==
    IF thresholdArg = <<>> THEN 6 ELSE thresholdArg[1]

\* analytical and skeptical, two contributions, skeptical endorsing thought 1
\* at 0.8
EndorsedAtEight(session) ==
    /\ session.agent_lenses = <<"analytical", "skeptical">>
    /\ Len(session.thoughts) = 2
    /\ session.thoughts[1].agent_lens = "analytical"
    /\ session.thoughts[1].endorsements = ("skeptical" :> 8)
    /\ session.thoughts[2].endorsements = <<>>

(* C20, as stated: for every session and threshold the consensus set is
   exactly the thoughts with at least one endorsement and a mean level >=
   threshold, in thought order. *)
C20_ConsensusSetEverySession ==
    [][(response'.tool = "synthesize" /\ response'.status = "success") =>
          \A sessionId \in SessionIdInputs, threshold \in ThresholdInputs :
              \/ ConsensusIds(response')
                   = Qualifying(active_sessions[response'.id],
                                ThresholdOf(threshold))
              \/ ~tool_synthesize(sessionId, threshold)]_vars

(* C20, as amended: for every session of at least 2 thoughts and every
   threshold the consensus set is exactly the thoughts with at least one
   endorsement and a mean level >= threshold, in thought order; for a
   session of fewer than 2 thoughts it is empty.  After start [analytical,
   skeptical], two contributions and skeptical endorsing thought 1 at 0.8,
   threshold 0.6 includes thought 1. *)
C20_ConsensusSet ==
    [][(response'.tool = "synthesize" /\ response'.status = "success") =>
          \A sessionId \in SessionIdInputs, threshold \in ThresholdInputs :
              \/ LET session == active_sessions[response'.id]
                 IN  /\ ConsensusIds(response')
                          = IF Len(session.thoughts) >= 2
                            THEN Qualifying(session, ThresholdOf(threshold))
                            ELSE <<>>
                     /\ (EndorsedAtEight(session) /\ ThresholdOf(threshold) = 6)
                            => ConsensusIds(response') = <<1>>
              \/ ~tool_synthesize(sessionId, threshold)]_vars

(* the session of the example, synthesized with thought 1 in the consensus
   set *)
C20_Witness ==
    /\ response.tool = "synthesize"
    /\ response.status = "success"
    /\ EndorsedAtEight(active_sessions[response.id])
    /\ ConsensusIds(response) = <<1>>

----------------------------------------------------------------------------
(* compute_convergence_score and identify_tensions, applied to a session *)

\* levels on, next to and away from the two endorsement thresholds
AnalyzerLevels == {-9, -5, 0, 5, 9}

InitAnalyzer == InitSessions(AnalyzerLevels)

ComputeConvergenceScore ==
    /\ response = NoResponse
    /\ Rejected([ tool   |-> "compute_convergence_score",
                  status |-> "success",
                  error  |-> "",
                  id     |-> 1,
                  score  |-> compute_convergence_score(active_sessions[1]) ])

IdentifyTensions ==
    /\ response = NoResponse
    /\ Rejected([ tool     |-> "identify_tensions",
                  status   |-> "success",
                  error    |-> "",
                  id       |-> 1,
                  tensions |-> identify_tensions(active_sessions[1]) ])

NextAnalyzer ==
    \/ ComputeConvergenceScore
    \/ IdentifyTensions
    \/ Deliver

SpecAnalyzer == InitAnalyzer /\ [][NextAnalyzer]_vars

\* the endorsements of the session at a level of at least 0.5
SlotsAtLeastHalf(session) ==
    {slot \in EndorsementSlots(session) :
        session.thoughts[slot[1]].endorsements[slot[2]] >= 5}

\* three thoughts endorsed at 0.9, 0.9 and -0.9
NineNineMinusNine(session) ==
    /\ Len(session.thoughts) = 3
    /\ Cardinality(EndorsementSlots(session)) = 3
    /\ Cardinality({slot \in EndorsementSlots(session) :
           session.thoughts[slot[1]].endorsements[slot[2]] = 9}) = 2
    /\ Cardinality({slot \in EndorsementSlots(session) :
           session.thoughts[slot[1]].endorsements[slot[2]] = -9}) = 1

(* C21: compute_convergence_score is 0.0 for a session of fewer than 3
   thoughts or without endorsements; otherwise it is (number of endorsement
   values >= 0.5) / (number of endorsement values), 2/3 for the values
   [0.9, 0.9, -0.9]; it always lies in [0, 1]. *)
C21_ConvergenceScore ==
    response.tool = "compute_convergence_score" =>
        LET session == active_sessions[1]
            slots   == EndorsementSlots(session)
            score   == response.score
        IN  /\ score.den > 0
            /\ 0 <= score.num /\ score.num <= score.den
            /\ IF Len(session.thoughts) < 3 \/ slots = {}
               THEN score.num = 0
               ELSE score.num * Cardinality(slots)
                        = Cardinality(SlotsAtLeastHalf(session)) * score.den
            /\ NineNineMinusNine(session) => 3 * score.num = 2 * score.den

(* the values [0.9, 0.9, -0.9] on three thoughts, scored 2/3 *)
C21_Witness ==
    /\ response.tool = "compute_convergence_score"
    /\ NineNineMinusNine(active_sessions[1])
    /\ response.score = [num |-> 2, den |-> 3]

\* the tension entry the thought at position k is due, <<>> when it is none
TensionDue(session, k) ==
    LET thought == session.thoughts[k]
        up   == {a \in DOMAIN thought.endorsements : thought.endorsements[a] >= 5}
        down == {a \in DOMAIN thought.endorsements : thought.endorsements[a] <= -5}
    IN  IF up # {} /\ down # {}
        THEN << [ thought_id  |-> thought.thought_id,
                  supporters  |-> Cardinality(up),
                  challengers |-> Cardinality(down),
                  challenges  |-> thought.challenges ] >>
        ELSE <<>>

RECURSIVE TensionsDue(_, _)
TensionsDue(session, k) ==
    IF k > Len(session.thoughts) THEN <<>>
    ELSE TensionDue(session, k) \o TensionsDue(session, k + 1)

(* C22: identify_tensions returns exactly the thoughts with an endorsement
   value >= 0.5 and an endorsement value <= -0.5, in thought order, each
   with the number of values >= 0.5 as supporters, the number of values
   <= -0.5 as challengers, and the whole challenge list of the thought. *)
C22_Tensions ==
    response.tool = "identify_tensions" =>
        [i \in DOMAIN response.tensions |->
            [ thought_id  |-> response.tensions[i].thought_id,
              supporters  |-> response.tensions[i].supporters,
              challengers |-> response.tensions[i].challengers,
              challenges  |-> response.tensions[i].challenges ]]
          = TensionsDue(active_sessions[1], 1)

(* a tension whose two sides sit exactly on the thresholds, with its
   challenge record, after a thought that is no tension *)
C22_Witness ==
    /\ response.tool = "identify_tensions"
    /\ Len(response.tensions) = 1
    /\ response.tensions[1].thought_id = 2
    /\ response.tensions[1].supporters = 1
    /\ response.tensions[1].challengers = 1
    /\ Len(response.tensions[1].challenges) = 1
    /\ Range(active_sessions[1].thoughts[2].endorsements) = {5, -5}
    /\ DOMAIN active_sessions[1].thoughts[1].endorsements # {}

----------------------------------------------------------------------------
(* The other read operations: tools.tool_convergence_map with
   utils.format_convergence_map, and tools.tool_get_active_session *)

RECURSIVE SumOfWeights(_, _, _)
SumOfWeights(session, ids, k) ==
    IF k > Len(ids) THEN 0
    ELSE get_thought(session, ids[k]).weight + SumOfWeights(session, ids, k + 1)

RECURSIVE ConsensusLines(_, _)
ConsensusLines(items, k) ==
    IF k > Len(items) THEN <<>>
    ELSE << <<"[CONSENSUS]", items[k].agent, items[k].thought, items[k].agreement>> >>
           \o ConsensusLines(items, k + 1)

(* for c in t['challenges'][:2] *)
ChallengeLines(challenges) ==
    [i \in 1..Min(2, Len(challenges)) |->
        <<"   -", challenges[i].from_agent, Min(challenges[i].concern, 80)>>]

RECURSIVE TensionLines(_, _)
TensionLines(tensions, k) ==
    IF k > Len(tensions) THEN <<>>
    ELSE << <<"[TENSION]", tensions[k].agent, tensions[k].thought>>,
            <<"support, challenge", tensions[k].supporters, tensions[k].challengers>> >>
           \o ChallengeLines(tensions[k].challenges)
           \o TensionLines(tensions, k + 1)

(* the lines of the report; a line is its fixed text with the values it
   shows, the score and the average weights in hundredths *)
format_convergence_map(session, consensus, tensions, convergence) ==
    << <<"====">>,
       <<"ENSEMBLE CONVERGENCE MAP">>,
       <<"====">>,
       <<"Problem:">>,
       <<"Agents:", session.agent_lenses>>,
       <<"Thoughts:", Len(session.thoughts)>>,
       <<"Convergence Score:", RoundDiv(100 * convergence.num, convergence.den)>>,
       <<"">>,
       <<"--- CONSENSUS AREAS ---">> >>
    \o (IF consensus.consensus_thoughts # <<>>
        THEN ConsensusLines(consensus.consensus_thoughts, 1)
        ELSE << <<"(No strong consensus yet)">> >>)
    \o << <<"">>, <<"--- PRODUCTIVE TENSIONS ---">> >>
    \o (IF tensions # <<>>
        THEN TensionLines(tensions, 1)
        ELSE << <<"(No major disagreements)">> >>)
    \o << <<"">>, <<"--- AGENT CONTRIBUTIONS ---">> >>
    \o [i \in DOMAIN session.agent_lenses |->
          LET ids == session.agent_thoughts[session.agent_lenses[i]]
          IN  <<"thoughts, avg weight:", session.agent_lenses[i], Len(ids),
                IF ids # <<>>
                THEN RoundDiv(10 * SumOfWeights(session, ids, 1), Len(ids))
                ELSE 0>>]
    \o << <<"">>, <<"====">> >>

tool_convergence_map(sessionId) ==
    LET tool == "get_convergence_map"
        session_id == ResolveSessionId(sessionId)
    IN  IF NoActiveSession(session_id)
        THEN Rejected(Err(tool, "no_active_session", 0))
        ELSE
        LET session == active_sessions[session_id]
            consensus == calculate_consensus(session, default_synthesis_threshold)
            tensions == identify_tensions(session)
            convergence == compute_convergence_score(session)
        IN  Rejected(
              [ tool   |-> tool,
                status |-> "success",
                error  |-> "",
                id     |-> session_id,
                convergenceScore |-> RoundDiv(100 * convergence.num, convergence.den),
                mapText |-> format_convergence_map(session, consensus,
                                                   tensions, convergence) ])

(* EnsembleSession.to_dict *)
to_dict(session) ==
    [ session_id   |-> session.session_id,
      agent_lenses |-> session.agent_lenses,
      thoughts     |-> session.thoughts,
      integrations |-> session.integrations ]

tool_get_active_session ==
    LET tool == "get_active_session"
    IN  IF NoActiveSession(current_session_id)
        THEN Rejected(Err(tool, "no_active_session", 0))
        ELSE Rejected(
               [ tool    |-> tool,
                 status  |-> "success",
                 error   |-> "",
                 id      |-> current_session_id,
                 session |-> to_dict(active_sessions[current_session_id]) ])

MaxReadCalls == 5

InitRead ==
    /\ active_sessions = <<>>
    /\ current_session_id = NoId
    /\ agent_session_ops = [s \in SessionIds |-> [a \in AGENT_LENSES |-> <<>>]]
    /\ agent_ops_total = 0
    /\ now = 0
    /\ ops_log = [s \in SessionIds |-> [a \in AGENT_LENSES |-> <<>>]]
    /\ response = NoResponse
    /\ fuel = MaxReadCalls
    /\ EnsembleOnly

ReadContribute ==
    /\ response = NoResponse
    /\ \E agentLens \in Range(RateLenses) :
           tool_contribute(NoId, agentLens, 1, <<>>, 15, 0)

ReadEndorseChallenge ==
    /\ response = NoResponse
    /\ \E thoughtId \in 1..2, agentLens \in Range(RateLenses), level \in LevelInputs :
           tool_endorse_challenge(NoId, thoughtId, agentLens, level, 1, 0)

ConvergenceMap ==
    /\ response = NoResponse
    /\ \E sessionId \in SessionIdInputs : tool_convergence_map(sessionId)

GetActiveSession ==
    /\ response = NoResponse
    /\ tool_get_active_session

NextRead ==
    \/ RateStart
    \/ ReadContribute
    \/ ReadEndorseChallenge
    \/ Synthesize
    \/ ConvergenceMap
    \/ GetActiveSession
    \/ Deliver
    \/ Tick(1)

SpecRead == InitRead /\ [][NextRead]_vars

ReadTools == {"synthesize", "get_convergence_map", "get_active_session"}

\* the session a request with this sessionId argument addresses exists
Addressed(sessionId) ==
    \/ sessionId \in Sessions
    \/ sessionId = NoId /\ current_session_id \in Sessions

\* the queue of every participant of session s holds a full window of
\* operations
AllRateLimited(s) ==
    \A a \in Range(active_sessions[s].agent_lenses) :
        Cardinality({i \in DOMAIN agent_session_ops[s][a] :
            agent_session_ops[s][a][i] >= now - rate_limit_window_seconds})
          >= rate_limit_ops_per_window

(* C23: synthesize, get_convergence_map and get_active_session leave the
   sessions (with both id counters), the current-session marker and every
   rate-limiter queue as they were, never answer rate_limited, and succeed
   whenever the session they address exists, also when every agent of it
   is rate limited. *)
C23_ReadsChangeNothing ==
    [][response'.tool \in ReadTools =>
          /\ UNCHANGED <<active_sessions, current_session_id,
                         agent_session_ops, agent_ops_total>>
          /\ response'.error # "rate_limited"
          /\ \A sessionId \in SessionIdInputs, threshold \in ThresholdInputs :
                 \/ Addressed(sessionId) => response'.status = "success"
                 \/ ~ \/ tool_synthesize(sessionId, threshold)
                      \/ tool_convergence_map(sessionId)
                      \/ sessionId = NoId /\ tool_get_active_session]_vars

(* a synthesis delivered for a session whose agents are all rate limited *)
C23_Witness ==
    /\ response.tool = "synthesize"
    /\ response.status = "success"
    /\ AllRateLimited(response.id)
    /\ Len(active_sessions[response.id].thoughts) = 2

----------------------------------------------------------------------------
(* Requests in flight together.  models.is_rate_limited and
   models.record_agent_op are two critical sections of _agent_ops_lock; a
   handler calls the first, validates and changes the session, then calls
   the second.  With requests served side by side, the calls of another
   request may come between the two. *)

MaxRequests == 3
Requests == 1..MaxRequests

ConcTools == {"contribute_perspective", "propose_integration"}

IdleRequest == [pc |-> "idle", tool |-> "", agent_lens |-> "", result |-> ""]

InitConc ==
    /\ active_sessions = <<NewSession(1, RateLenses)>>
    /\ current_session_id = 1
    /\ agent_session_ops = [s \in SessionIds |-> [a \in AGENT_LENSES |-> <<>>]]
    /\ agent_ops_total = 0
    /\ now = 0
    /\ ops_log = [s \in SessionIds |-> [a \in AGENT_LENSES |-> <<>>]]
    /\ response = NoResponse
    /\ fuel = 0
    /\ in_flight = [r \in Requests |-> IdleRequest]
    /\ exporter = ExporterStopped
    /\ lateral = NoLateral
    /\ federated = NoFederated

\* request r ends with this result
Answered(r, tool, agentLens, result) ==
    in_flight' = [in_flight EXCEPT ![r] =
        [pc |-> "done", tool |-> tool, agent_lens |-> agentLens, result |-> result]]

(* tool_contribute / tool_propose_integration of request r, up to and with
   models.is_rate_limited *)
BeginRequest(r) ==
    /\ in_flight[r].pc = "idle"
    /\ \E tool \in ConcTools, agentLens \in LensInputs :
         LET session_id == ResolveSessionId(NoId)
             session == active_sessions[session_id]
             check == is_rate_limited(agent_session_ops[session_id][agentLens], now)
         IN  IF AgentNotInSession(session, agentLens)
             THEN /\ Answered(r, tool, agentLens, "agent_not_in_session")
                  /\ UNCHANGED agent_session_ops
             ELSE /\ agent_session_ops' =
                         [agent_session_ops EXCEPT ![session_id][agentLens] = check.dq]
                  /\ IF check.limited
                     THEN Answered(r, tool, agentLens, "rate_limited")
                     ELSE in_flight' = [in_flight EXCEPT ![r] =
                              [pc |-> "checked", tool |-> tool,
                               agent_lens |-> agentLens, result |-> ""]]
    /\ UNCHANGED <<active_sessions, current_session_id, agent_ops_total, now,
                   ops_log, response, fuel, exporter, lateral,
                   federated>>

(* the rest of the handler of request r: the session changed, then
   models.record_agent_op *)
FinishRequest(r) ==
    /\ in_flight[r].pc = "checked"
    /\ LET tool == in_flight[r].tool
           agentLens == in_flight[r].agent_lens
           session_id == current_session_id
           session == active_sessions[session_id]
           thought == add_thought(session,
                          CollaborativeThought(1, agentLens, <<>>, 10))
           proposal == add_integration(session,
                           IntegrationProposal(agentLens, 1, <<>>))
           changed == IF tool = "contribute_perspective"
                      THEN thought.session ELSE proposal.session
       IN  IF tool = "contribute_perspective" /\ thought.raised
           THEN /\ Answered(r, tool, agentLens, "internal_error")
                /\ UNCHANGED <<active_sessions, agent_session_ops,
                               agent_ops_total, ops_log>>
           ELSE /\ Answered(r, tool, agentLens, "success")
                /\ active_sessions' = [active_sessions EXCEPT ![session_id] = changed]
                /\ agent_session_ops' =
                       [agent_session_ops EXCEPT ![session_id][agentLens] =
                           record_agent_op(@, now)]
                /\ ops_log' = [ops_log EXCEPT ![session_id][agentLens] = Append(@, now)]
                /\ agent_ops_total' = agent_ops_total + 1
    /\ UNCHANGED <<current_session_id, now, response, fuel, exporter, lateral,
                   federated>>

NextConc ==
    \/ \E r \in Requests : BeginRequest(r)
    \/ \E r \in Requests : FinishRequest(r)
    \/ Tick(1)

SpecConc == InitConc /\ [][NextConc]_vars

(* C24: however the requests in flight interleave their is_rate_limited
   and record_agent_op steps, no recorded timestamp is missing from its
   queue unless it is older than the window, and for every session, agent
   and time t at most rate_limit_ops_per_window of the agent's recorded
   operations have their timestamp in [t - window, t]. *)
C24_ConcurrentLimiterSafe ==
    \A s \in SessionIds, a \in AGENT_LENSES :
        /\ IsSuffix(agent_session_ops[s][a], ops_log[s][a])
        /\ \A i \in 1..(Len(ops_log[s][a]) - Len(agent_session_ops[s][a])) :
               ops_log[s][a][i] < now - rate_limit_window_seconds
        /\ \A t \in 0..MaxTime :
               Cardinality({i \in DOMAIN ops_log[s][a] :
                               /\ t - rate_limit_window_seconds <= ops_log[s][a][i]
                               /\ ops_log[s][a][i] <= t})
                   <= rate_limit_ops_per_window

----------------------------------------------------------------------------
(* server.handle_call_tool: the dispatcher *)

ToolNameInputs ==
    { "start_collaborative_reasoning", "contribute_perspective",
      "get_active_session", "no_such_tool" }

\* the arguments of a request: none at all (arguments or {}), or the ones
\* the tool requires
ArgumentInputs == [present : BOOLEAN, agentLens : LensInputs]

(* except Exception as e: the envelope internal_error *)
Raised(name) == Rejected(Err(name, "internal_error", 0))

(* a dispatcher that looks the handler up with TOOL_HANDLERS[name] *)
handle_call_tool_subscript(name, arguments) ==
    IF name = "start_collaborative_reasoning"
    THEN IF ~arguments.present
         THEN Raised(name)                  \* args["problem"]: KeyError
         ELSE tool_start_collaborative(CapLenses)
    ELSE IF name = "contribute_perspective"
    THEN IF arguments.present
         THEN tool_contribute(NoId, arguments.agentLens, 1, <<>>, 15, 0)
         ELSE IF NoActiveSession(ResolveSessionId(NoId))
         THEN Rejected(Err(name, "no_active_session", 0))
         ELSE Raised(name)                  \* args["agentLens"]: KeyError
    ELSE IF name = "get_active_session"
    THEN tool_get_active_session
    ELSE Raised(name)                       \* TOOL_HANDLERS[name]: KeyError

handle_call_tool(name, arguments) ==
    IF name = "start_collaborative_reasoning"
    THEN IF ~arguments.present
         THEN Raised(name)                  \* args["problem"]: KeyError
         ELSE tool_start_collaborative(CapLenses)
    ELSE IF name = "contribute_perspective"
    THEN IF arguments.present
         THEN tool_contribute(NoId, arguments.agentLens, 1, <<>>, 15, 0)
         ELSE IF NoActiveSession(ResolveSessionId(NoId))
         THEN Rejected(Err(name, "no_active_session", 0))
         ELSE Raised(name)                  \* args["agentLens"]: KeyError
    ELSE IF name = "get_active_session"
    THEN tool_get_active_session
    ELSE Rejected(Err(name, "unknown_tool", 0))

CallTool ==
    /\ response = NoResponse
    /\ \E name \in ToolNameInputs, arguments \in ArgumentInputs :
           handle_call_tool(name, arguments)

NextDispatch ==
    \/ CallTool
    \/ Deliver
    \/ Tick(1)

SpecDispatch == InitCap /\ [][NextDispatch]_vars

RegisteredTools ==
    { "start_collaborative_reasoning", "contribute_perspective",
      "endorse_or_challenge", "synthesize_convergence", "propose_integration",
      "get_convergence_map", "get_active_session", "get_metrics",
      "get_rate_status", "reset_agent_rate" }

\* the timestamps of a queue that a rate check at the present time still
\* counts
Counted(dq) ==
    SelectSeq(dq, LAMBDA t : t >= now - rate_limit_window_seconds)

(* C25: a call of an unregistered tool is answered with the error envelope
   unknown_tool, a call whose handler raises (a missing argument, a session
   or an agent at its thought cap) with the error envelope internal_error;
   either way the sessions, the current-session marker, the clock and the
   record of operations stay as they were and every queue keeps the
   timestamps a later rate check counts, so that later calls find what they
   would have found without the failed one. *)
C25_DispatcherContainsFailures ==
    [][/\ response'.error \in {"unknown_tool", "internal_error"} =>
            /\ response'.status = "error"
            /\ UNCHANGED <<active_sessions, current_session_id,
                           agent_ops_total, ops_log, now>>
            /\ \A s \in SessionIds, a \in AGENT_LENSES :
                   Counted(agent_session_ops'[s][a])
                       = Counted(agent_session_ops[s][a])
       /\ response' # NoResponse =>
            \A name \in ToolNameInputs, arguments \in ArgumentInputs :
                \/ /\ name \notin RegisteredTools
                        => response'.error = "unknown_tool"
                   /\ ( /\ name = "contribute_perspective"
                        /\ current_session_id \in Sessions
                        /\ \/ ~arguments.present
                           \/ /\ arguments.agentLens
                                   \in Range(active_sessions[current_session_id].agent_lenses)
                              /\ Len(Counted(agent_session_ops[current_session_id][arguments.agentLens]))
                                   < rate_limit_ops_per_window
                              /\ \/ Len(active_sessions[current_session_id].thoughts)
                                        >= max_thoughts_per_session
                                 \/ Cardinality(ThoughtsOf(active_sessions[current_session_id],
                                                           arguments.agentLens))
                                        >= max_thoughts_per_agent_per_session )
                        => response'.error = "internal_error"
                \/ ~handle_call_tool(name, arguments)]_vars

(* a contribute call that add_thought refused at the session cap, answered
   with internal_error *)
C25_Witness ==
    /\ response.tool = "contribute_perspective"
    /\ response.error = "internal_error"
    /\ \E s \in Sessions :
           Len(active_sessions[s].thoughts) = max_thoughts_per_session

----------------------------------------------------------------------------
(* Endorsements: a session of four agents, so that a thought has more
   possible endorsers than max_endorsements_per_thought *)

MaxEndorseCalls == 5

EndorseLenses == <<"analytical", "skeptical", "creative", "pragmatic">>
EndorseLevelInputs == {-15, 3, 8}

InitEndorse ==
    /\ active_sessions = <<>>
    /\ current_session_id = NoId
    /\ agent_session_ops = [s \in SessionIds |-> [a \in AGENT_LENSES |-> <<>>]]
    /\ agent_ops_total = 0
    /\ now = 0
    /\ ops_log = [s \in SessionIds |-> [a \in AGENT_LENSES |-> <<>>]]
    /\ response = NoResponse
    /\ fuel = MaxEndorseCalls
    /\ EnsembleOnly

EndorseStart ==
    /\ response = NoResponse
    /\ tool_start_collaborative(EndorseLenses)

EndorseContribute ==
    /\ response = NoResponse
    /\ \E agentLens \in {"analytical", "skeptical"} :
           tool_contribute(NoId, agentLens, 1, <<>>, 15, 0)

EndorseOrChallenge ==
    /\ response = NoResponse
    /\ \E thoughtId \in 1..2, agentLens \in Range(EndorseLenses),
          level \in EndorseLevelInputs, note \in {0, 1} :
           tool_endorse_challenge(NoId, thoughtId, agentLens, level, note, 0)

NextEndorse ==
    \/ EndorseStart
    \/ EndorseContribute
    \/ EndorseOrChallenge
    \/ Deliver

SpecEndorse == InitEndorse /\ [][NextEndorse]_vars

(* C26: no thought ever has more than max_endorsements_per_thought entries
   in its endorsement map. *)
C26_EndorsersCapped ==
    \A s \in Sessions :
        \A k \in DOMAIN active_sessions[s].thoughts :
            Cardinality(DOMAIN active_sessions[s].thoughts[k].endorsements)
                <= max_endorsements_per_thought

(* a thought with a full endorsement map and a further agent of the session
   just turned away *)
C26_Witness ==
    /\ response.tool = "endorse_or_challenge"
    /\ response.error = "max_endorsements_reached"
    /\ \E s \in Sessions :
           \E k \in DOMAIN active_sessions[s].thoughts :
               Cardinality(DOMAIN active_sessions[s].thoughts[k].endorsements)
                   = max_endorsements_per_thought

\* the endorsement maps of the session, thought by thought
EndorsementsOf(session) ==
    [k \in DOMAIN session.thoughts |-> session.thoughts[k].endorsements]

\* the level brought into [-1, 1]
Limited(level) ==
    IF level < -10 THEN -10 ELSE IF level > 10 THEN 10 ELSE level

(* C27: a successful endorse_or_challenge of agent A on thought T sets the
   entry of A in T's endorsement map to the level brought into [-1, 1],
   whether A had an entry or not, and leaves every other entry of T and
   every other thought as they were; no other step changes an endorsement
   map of an existing thought (so each entry is the most recent successful
   level of its agent), and every stored value lies in [-1, 1]. *)
C27_EndorsementEntry ==
    [][/\ \A s \in Sessions :
            \A k \in DOMAIN active_sessions[s].thoughts :
                \/ EndorsementsOf(active_sessions'[s])[k]
                       = EndorsementsOf(active_sessions[s])[k]
                \/ /\ response'.tool = "endorse_or_challenge"
                   /\ response'.status = "success"
                   /\ active_sessions[s].thoughts[k].thought_id = response'.id
       /\ (response'.tool = "endorse_or_challenge" /\ response'.status = "success") =>
            \A thoughtId \in 1..2, agentLens \in Range(EndorseLenses),
               level \in EndorseLevelInputs, note \in {0, 1} :
                \/ LET s   == current_session_id
                       k   == CHOOSE i \in DOMAIN active_sessions[s].thoughts :
                                 active_sessions[s].thoughts[i].thought_id = thoughtId
                       old == active_sessions[s].thoughts[k].endorsements
                       new == active_sessions'[s].thoughts[k].endorsements
                   IN  /\ s \in Sessions
                       /\ \E i \in DOMAIN active_sessions[s].thoughts :
                              active_sessions[s].thoughts[i].thought_id = thoughtId
                       /\ DOMAIN new = DOMAIN old \cup {agentLens}
                       /\ new[agentLens] = Limited(level)
                       /\ \A a \in DOMAIN old \ {agentLens} : new[a] = old[a]
                       /\ \A a \in DOMAIN new : -10 <= new[a] /\ new[a] <= 10
                \/ ~tool_endorse_challenge(NoId, thoughtId, agentLens, level, note, 0)]_vars

(* an agent's entry overwritten by a later endorsement at another level,
   the entry of another agent in place *)
C27_Witness ==
    /\ response.tool = "endorse_or_challenge"
    /\ response.status = "success"
    /\ \E s \in Sessions, a \in AGENT_LENSES :
           /\ Len(ops_log[s][a]) = 2
           /\ \E k \in DOMAIN active_sessions[s].thoughts :
                  /\ active_sessions[s].thoughts[k].agent_lens # a
                  /\ Cardinality(DOMAIN active_sessions[s].thoughts[k].endorsements) = 2
                  /\ a \in DOMAIN active_sessions[s].thoughts[k].endorsements
                  /\ active_sessions[s].thoughts[k].endorsements[a] = -10
                  /\ Len(active_sessions[s].thoughts) = 1

----------------------------------------------------------------------------
(* The metrics exporter.  A worker is at "while" (about to test the stop
   event), "try" (about to call wait), "wait" (inside wait on the event it
   read), "export" (writing the file) or "dead"; every read of
   _metrics_exporter_stop_event is a read of the global at that moment.
   Events and workers are numbered in the order of their creation; 0 is
   None. *)

\* threading.Thread.is_alive
is_alive(w) == exporter.pc[w] \notin {"unstarted", "dead"}

Running == {w \in Workers : is_alive(w)}

Unstarted == {w \in Workers : exporter.pc[w] = "unstarted"}

InitExporter ==
    /\ active_sessions = <<>>
    /\ current_session_id = NoId
    /\ agent_session_ops = [s \in SessionIds |-> [a \in AGENT_LENSES |-> <<>>]]
    /\ agent_ops_total = 0
    /\ now = 0
    /\ ops_log = [s \in SessionIds |-> [a \in AGENT_LENSES |-> <<>>]]
    /\ response = NoResponse
    /\ fuel = 0
    /\ in_flight = NoInFlight
    /\ lateral = NoLateral
    /\ federated = NoFederated
    /\ \E enabled \in BOOLEAN :
           exporter = [ExporterStopped EXCEPT !.enabled = enabled]

ExporterStep(next) ==
    /\ exporter' = next
    /\ UNCHANGED <<active_sessions, current_session_id, agent_session_ops,
                   agent_ops_total, now, ops_log, response, fuel,
                   in_flight, lateral, federated>>

ensure_metrics_exporter_started ==
    /\ exporter.caller = "idle"
    /\ IF ~exporter.enabled
       THEN ExporterStep([exporter EXCEPT !.last = "disabled"])
       ELSE IF exporter.thread # 0 /\ is_alive(exporter.thread)
       THEN ExporterStep([exporter EXCEPT !.last = "already_running"])
       ELSE /\ Unstarted # {}
            /\ LET k == CHOOSE w \in Unstarted : \A v \in Unstarted : w <= v
               IN  ExporterStep([exporter EXCEPT
                                   !.stop_event = k,
                                   !.thread = k,
                                   !.pc[k] = "while",
                                   !.last = "started"])

(* stop_metrics_exporter up to the join: the event is set, and the call
   either goes on to join a live thread or clears the globals at once *)
stop_metrics_exporter ==
    /\ exporter.caller = "idle"
    /\ LET signalled == [w \in Workers |-> exporter.signalled[w] \/ is_alive(w)]
           is_set == IF exporter.stop_event # 0
                     THEN [exporter.is_set EXCEPT ![exporter.stop_event] = TRUE]
                     ELSE exporter.is_set
       IN  IF exporter.thread # 0 /\ is_alive(exporter.thread)
           THEN ExporterStep([exporter EXCEPT
                                !.is_set = is_set,
                                !.signalled = signalled,
                                !.caller = "join",
                                !.last = "stopping"])
           ELSE ExporterStep([exporter EXCEPT
                                !.is_set = is_set,
                                !.signalled = signalled,
                                !.thread = 0,
                                !.stop_event = 0,
                                !.last = "stopped"])

(* join(timeout=5.0) returns, the thread finished or not, and the globals
   are cleared *)
JoinReturns ==
    /\ exporter.caller = "join"
    /\ ExporterStep([exporter EXCEPT
                       !.thread = 0,
                       !.stop_event = 0,
                       !.caller = "idle",
                       !.last = IF is_alive(exporter.thread)
                                THEN "join_timed_out" ELSE "stopped"])

(* while not _metrics_exporter_stop_event.is_set(): with the global None the
   AttributeError is outside the try and ends the thread *)
WorkerWhile(w) ==
    /\ exporter.pc[w] = "while"
    /\ LET event == exporter.stop_event
       IN  IF event = 0 \/ exporter.is_set[event]
           THEN ExporterStep([exporter EXCEPT !.pc[w] = "dead"])
           ELSE ExporterStep([exporter EXCEPT !.pc[w] = "try"])

(* _metrics_exporter_stop_event.wait(...) entered: with the global None the
   AttributeError is caught and logged, and the loop goes round *)
WorkerTry(w) ==
    /\ exporter.pc[w] = "try"
    /\ LET event == exporter.stop_event
       IN  IF event = 0
           THEN ExporterStep([exporter EXCEPT !.pc[w] = "while"])
           ELSE ExporterStep([exporter EXCEPT !.pc[w] = "wait",
                                              !.waiting_on[w] = event])

(* wait returns True: break *)
WorkerWoken(w) ==
    /\ exporter.pc[w] = "wait"
    /\ exporter.is_set[exporter.waiting_on[w]]
    /\ ExporterStep([exporter EXCEPT !.pc[w] = "dead", !.waiting_on[w] = 0])

(* wait returns False after the interval: the export begins *)
WorkerInterval(w) ==
    /\ exporter.pc[w] = "wait"
    /\ ~exporter.is_set[exporter.waiting_on[w]]
    /\ ExporterStep([exporter EXCEPT
                       !.pc[w] = "export",
                       !.waiting_on[w] = 0,
                       !.exports_after[w] =
                           IF exporter.signalled[w] /\ @ < MaxExportsCounted
                           THEN @ + 1 ELSE @])

(* the file written, or the failure logged *)
WorkerExport(w) ==
    /\ exporter.pc[w] = "export"
    /\ ExporterStep([exporter EXCEPT !.pc[w] = "while"])

_metrics_exporter_worker(w) ==
    \/ WorkerWhile(w)
    \/ WorkerTry(w)
    \/ WorkerWoken(w)
    \/ WorkerInterval(w)
    \/ WorkerExport(w)

NextExporter ==
    \/ ensure_metrics_exporter_started
    \/ stop_metrics_exporter
    \/ JoinReturns
    \/ \E w \in Workers : WorkerWhile(w)
    \/ \E w \in Workers : WorkerTry(w)
    \/ \E w \in Workers : WorkerWoken(w)
    \/ \E w \in Workers : WorkerInterval(w)
    \/ \E w \in Workers : WorkerExport(w)

SpecExporter == InitExporter /\ [][NextExporter]_vars

(* every started thread is scheduled, a wait ends with its interval, and a
   join ends with its timeout *)
SpecExporterFair ==
    /\ SpecExporter
    /\ \A w \in Workers : WF_vars(_metrics_exporter_worker(w))
    /\ WF_vars(JoinReturns)

(* C28: at most one metrics-exporter worker is running at any time, whatever
   the sequence of ensure_metrics_exporter_started and
   stop_metrics_exporter calls, a join that times out included. *)
C28_AtMostOneWorker ==
    Cardinality(Running) <= 1

(* C29: once stop_metrics_exporter has been called, every worker running at
   that moment eventually terminates, having started at most one further
   export after the stop signal. *)
C29_StoppedWorkerTerminates ==
    /\ \A w \in Workers : (exporter.signalled[w] ~> exporter.pc[w] = "dead")
    /\ [](\A w \in Workers : exporter.exports_after[w] <= 1)

----------------------------------------------------------------------------
(* lateral-synthesis: origin -> divergence -> synthesis -> reflection.
   A session id is the position of the session in SESSIONS (0: no id);
   texts are their stripped lengths; confidences and ratings are tenths;
   completed_at is 0 (None) or 1 (a timestamp). *)

MaxLateralSessions == 2
MaxConcepts == 2

max_origin_chars == 1000
max_insight_chars == 2000

CONNECTION_TYPES ==
    {"analogy", "contrast", "causal", "metaphor", "structural", "arbitrary", "other"}

\* the words a generation may return, the same word more than once
DivergentWords == {"entropy", "prism"}

\* no value given for a numeric argument
NoValue == -1

NoReflection == [present |-> FALSE, most_valuable_insight |-> 0, overall_rating |-> 0]

LateralSessionIdInputs == 0..(MaxLateralSessions + 1)

ConceptLists ==
    UNION {[1..n -> DivergentWords] : n \in 1..MaxConcepts}

(* LateralSession.create *)
LateralSession(origin) ==
    [origin |-> origin, divergent_concepts |-> <<>>, syntheses |-> <<>>,
     reflection |-> NoReflection, completed_at |-> 0]

(* the set of synthesized concepts taken to be empty *)
get_synthesized_concepts_none(session) == {}

get_synthesized_concepts(session) ==
    {session.syntheses[k].divergent_concept : k \in DOMAIN session.syntheses}

get_remaining_concepts(session) ==
    SelectSeq(session.divergent_concepts,
              LAMBDA c : c \notin get_synthesized_concepts(session))

(* any synthesis at all taken for completeness *)
is_synthesis_complete_any(session) ==
    Len(session.syntheses) > 0

is_synthesis_complete(session) ==
    /\ Len(session.syntheses) >= Len(session.divergent_concepts)
    /\ Len(session.divergent_concepts) > 0

(* SESSIONS.get(session_id) when an id is given, else get_current_session();
   0 when there is none *)
LateralSessionFor(sessionId) ==
    LET id == IF sessionId # 0 THEN sessionId ELSE lateral.CURRENT_SESSION_ID
    IN  IF id \in DOMAIN lateral.SESSIONS THEN id ELSE 0

LateralStep(envelope, next) ==
    /\ response' = envelope
    /\ lateral' = next
    /\ UNCHANGED <<active_sessions, current_session_id, agent_session_ops,
                   agent_ops_total, now, ops_log, fuel, in_flight, exporter,
                   federated>>

LateralRejected(envelope) == LateralStep(envelope, lateral)

LateralUpdated(envelope, id, session) ==
    LateralStep(envelope, [lateral EXCEPT !.SESSIONS[id] = session])

InitLateral ==
    /\ active_sessions = <<>>
    /\ current_session_id = NoId
    /\ agent_session_ops = [s \in SessionIds |-> [a \in AGENT_LENSES |-> <<>>]]
    /\ agent_ops_total = 0
    /\ now = 0
    /\ ops_log = [s \in SessionIds |-> [a \in AGENT_LENSES |-> <<>>]]
    /\ response = NoResponse
    /\ fuel = 0
    /\ EnsembleOnly

tool_start_session(origin) ==
    LET tool == "start_session"
        id == Len(lateral.SESSIONS) + 1
    IN  IF origin = 0
        THEN LateralRejected(Err(tool, "missing_origin", 0))
        ELSE IF origin > max_origin_chars
        THEN LateralRejected(Err(tool, "origin_too_long", 0))
        ELSE /\ id <= MaxLateralSessions
             /\ LateralStep(Ok(tool, id),
                            [SESSIONS |-> Append(lateral.SESSIONS, LateralSession(origin)),
                             CURRENT_SESSION_ID |-> id])

(* an override that replaces the concepts and keeps what was recorded *)
tool_generate_divergence_keeping(sessionId, count, override, concepts) ==
    LET tool == "generate_divergence"
        id == LateralSessionFor(sessionId)
    IN  IF id = 0
        THEN LateralRejected(Err(tool, "no_session", 0))
        ELSE
        LET session == lateral.SESSIONS[id]
        IN  IF session.divergent_concepts # <<>> /\ ~override
            THEN LateralRejected(Err(tool, "already_generated", id))
            ELSE IF count < 1 \/ count > 50
            THEN LateralRejected(Err(tool, "invalid_count", id))
            ELSE /\ Len(concepts) = count
                 /\ LateralUpdated(Ok(tool, id), id,
                        [session EXCEPT !.divergent_concepts = concepts])

tool_generate_divergence(sessionId, count, override, concepts) ==
    LET tool == "generate_divergence"
        id == LateralSessionFor(sessionId)
    IN  IF id = 0
        THEN LateralRejected(Err(tool, "no_session", 0))
        ELSE
        LET session == lateral.SESSIONS[id]
        IN  IF session.divergent_concepts # <<>> /\ ~override
            THEN LateralRejected(Err(tool, "already_generated", id))
            ELSE IF count < 1 \/ count > 50
            THEN LateralRejected(Err(tool, "invalid_count", id))
            ELSE /\ Len(concepts) = count
                 /\ LateralUpdated(Ok(tool, id), id,
                        [session EXCEPT
                           !.divergent_concepts = concepts,
                           !.syntheses = IF override THEN <<>> ELSE @,
                           !.reflection = IF override THEN NoReflection ELSE @,
                           !.completed_at = IF override THEN 0 ELSE @])

(* ConceptSynthesis.validate, the confidence and the insight having been
   tested by the handler before *)
validate(synthesis) ==
    /\ synthesis.connection_type \in CONNECTION_TYPES
    /\ synthesis.connection_type = "other" => synthesis.connection_type_detail
    /\ 0 <= synthesis.confidence /\ synthesis.confidence <= 10
    /\ synthesis.insight # 0

tool_record_synthesis(sessionId, divergent_concept, connection_type, connection_type_detail, confidence, insight) ==
    LET tool == "record_synthesis"
        id == LateralSessionFor(sessionId)
        synthesis == [divergent_concept |-> divergent_concept,
                      connection_type |-> connection_type,
                      connection_type_detail |-> connection_type_detail,
                      confidence |-> confidence,
                      insight |-> insight]
    IN  IF id = 0
        THEN LateralRejected(Err(tool, "no_session", 0))
        ELSE
        LET session == lateral.SESSIONS[id]
        IN  IF session.divergent_concepts = <<>>
            THEN LateralRejected(Err(tool, "no_divergence", id))
            ELSE IF divergent_concept = ""
            THEN LateralRejected(Err(tool, "missing_concept", id))
            ELSE IF divergent_concept \notin Range(session.divergent_concepts)
            THEN LateralRejected(Err(tool, "invalid_concept", id))
            ELSE IF divergent_concept \in get_synthesized_concepts(session)
            THEN LateralRejected(Err(tool, "already_synthesized", id))
            ELSE IF connection_type = ""
            THEN LateralRejected(Err(tool, "missing_connection_type", id))
            ELSE IF confidence = NoValue
            THEN LateralRejected(Err(tool, "missing_confidence", id))
            ELSE IF ~(0 <= confidence /\ confidence <= 10)
            THEN LateralRejected(Err(tool, "validation_error", id))
            ELSE IF insight = 0
            THEN LateralRejected(Err(tool, "missing_insight", id))
            ELSE IF insight > max_insight_chars
            THEN LateralRejected(Err(tool, "insight_too_long", id))
            ELSE IF ~validate(synthesis)
            THEN LateralRejected(Err(tool, "validation_error", id))
            ELSE LateralUpdated(Ok(tool, id), id,
                     [session EXCEPT !.syntheses = Append(@, synthesis)])

tool_reflect_on_session(sessionId, most_valuable_insight, why_valuable, overall_rating) ==
    LET tool == "reflect_on_session"
        id == LateralSessionFor(sessionId)
        reflection == [present |-> TRUE,
                       most_valuable_insight |-> most_valuable_insight,
                       overall_rating |-> overall_rating]
    IN  IF id = 0
        THEN LateralRejected(Err(tool, "no_session", 0))
        ELSE
        LET session == lateral.SESSIONS[id]
        IN  IF ~is_synthesis_complete(session)
            THEN LateralRejected(Err(tool, "synthesis_incomplete", id))
            ELSE IF session.reflection.present
            THEN LateralRejected(Err(tool, "already_reflected", id))
            ELSE IF most_valuable_insight = 0
            THEN LateralRejected(Err(tool, "missing_most_valuable", id))
            ELSE IF why_valuable = 0
            THEN LateralRejected(Err(tool, "missing_why_valuable", id))
            ELSE IF overall_rating = NoValue
            THEN LateralRejected(Err(tool, "missing_rating", id))
            ELSE IF ~(0 <= overall_rating /\ overall_rating <= 10)
            THEN LateralRejected(Err(tool, "validation_error", id))
            ELSE LateralUpdated(Ok(tool, id), id,
                     [session EXCEPT !.reflection = reflection,
                                     !.completed_at = 1])

StartSession ==
    /\ response = NoResponse
    /\ \E origin \in {0, 5, max_origin_chars + 1} : tool_start_session(origin)

GenerateDivergence ==
    /\ response = NoResponse
    /\ \E sessionId \in LateralSessionIdInputs, count \in {0, 51} \cup (1..MaxConcepts),
          override \in BOOLEAN, concepts \in ConceptLists :
           tool_generate_divergence(sessionId, count, override, concepts)

RecordSynthesis ==
    /\ response = NoResponse
    /\ \E sessionId \in LateralSessionIdInputs,
          divergent_concept \in DivergentWords \cup {"", "horizon"},
          connection_type \in {"", "other", "rhyme"},
          connection_type_detail \in BOOLEAN,
          confidence \in {NoValue, 5, 15},
          insight \in {0, 1, max_insight_chars + 1} :
           tool_record_synthesis(sessionId, divergent_concept, connection_type,
                                 connection_type_detail, confidence, insight)

ReflectOnSession ==
    /\ response = NoResponse
    /\ \E sessionId \in LateralSessionIdInputs, most_valuable_insight \in {0, 1},
          why_valuable \in {0, 1}, overall_rating \in {NoValue, 5, 15} :
           tool_reflect_on_session(sessionId, most_valuable_insight,
                                   why_valuable, overall_rating)

NextLateral ==
    \/ StartSession
    \/ GenerateDivergence
    \/ RecordSynthesis
    \/ ReflectOnSession
    \/ Deliver

SpecLateral == InitLateral /\ [][NextLateral]_vars

\* the divergent concepts of the session with no synthesis recorded
Unsynthesized(session) ==
    {c \in Range(session.divergent_concepts) :
        \A k \in DOMAIN session.syntheses :
            session.syntheses[k].divergent_concept # c}

(* C30: record_synthesis succeeds only on a session that has divergent
   concepts; reflect_on_session succeeds only on a session whose divergent
   concepts all have a recorded synthesis and that has no reflection yet;
   and a session that has a reflection has no unsynthesized concept. *)
C30_WorkflowOrder ==
    [][/\ (response'.tool = "record_synthesis" /\ response'.status = "success") =>
            lateral.SESSIONS[response'.id].divergent_concepts # <<>>
       /\ (response'.tool = "reflect_on_session" /\ response'.status = "success") =>
            /\ lateral.SESSIONS[response'.id].divergent_concepts # <<>>
            /\ Unsynthesized(lateral.SESSIONS[response'.id]) = {}
            /\ ~lateral.SESSIONS[response'.id].reflection.present
       /\ \A id \in DOMAIN lateral'.SESSIONS :
            lateral'.SESSIONS[id].reflection.present =>
                Unsynthesized(lateral'.SESSIONS[id]) = {}]_vars

(* a session of two different concepts, both synthesized, its reflection
   just accepted *)
C30_Witness ==
    /\ response.tool = "reflect_on_session"
    /\ response.status = "success"
    /\ LET session == lateral.SESSIONS[response.id]
       IN  /\ session.reflection.present
           /\ Cardinality(Range(session.divergent_concepts)) = 2
           /\ Len(session.syntheses) = 2

\* the session a call addresses: the one named, else the current one; 0 if none
LateralTarget(sessionId) ==
    IF sessionId # 0
    THEN IF sessionId <= Len(lateral.SESSIONS) THEN sessionId ELSE 0
    ELSE IF lateral.CURRENT_SESSION_ID \in 1..Len(lateral.SESSIONS)
         THEN lateral.CURRENT_SESSION_ID ELSE 0

(* C31: generate_divergence on a session that has divergent concepts fails
   with already_generated and changes nothing unless override is true; with
   override true and a count in 1..50 it replaces the concepts and resets
   syntheses to empty, reflection to none and completed_at to none; with a
   count outside 1..50 it fails with invalid_count and changes nothing,
   override or not. *)
C31_GenerateDivergenceOverride ==
    [][response'.tool = "generate_divergence" =>
        \A sessionId \in LateralSessionIdInputs, count \in {0, 51} \cup (1..MaxConcepts),
           override \in BOOLEAN, concepts \in ConceptLists :
            \/ LET id == LateralTarget(sessionId)
                   generated == id # 0 /\ lateral.SESSIONS[id].divergent_concepts # <<>>
               IN  /\ (generated /\ ~override) =>
                        /\ response' = Err("generate_divergence", "already_generated", id)
                        /\ lateral' = lateral
                   /\ (generated /\ override /\ count \in 1..50) =>
                        /\ response' = Ok("generate_divergence", id)
                        /\ lateral'.SESSIONS[id] =
                               [origin |-> lateral.SESSIONS[id].origin,
                                divergent_concepts |-> concepts,
                                syntheses |-> <<>>,
                                reflection |-> NoReflection,
                                completed_at |-> 0]
                        /\ \A other \in DOMAIN lateral.SESSIONS \ {id} :
                               lateral'.SESSIONS[other] = lateral.SESSIONS[other]
                        /\ DOMAIN lateral'.SESSIONS = DOMAIN lateral.SESSIONS
                   /\ (id # 0 /\ (override \/ ~generated) /\ count \notin 1..50) =>
                        /\ response' = Err("generate_divergence", "invalid_count", id)
                        /\ lateral' = lateral
            \/ ~tool_generate_divergence(sessionId, count, override, concepts)]_vars

(* a completed session, reflection and all, still whole after an override
   call whose count was refused *)
C31_Witness ==
    /\ response.tool = "generate_divergence"
    /\ response.error = "invalid_count"
    /\ lateral.SESSIONS[response.id].reflection.present
    /\ lateral.SESSIONS[response.id].completed_at = 1
    /\ Len(lateral.SESSIONS[response.id].syntheses) = 2

\* the challenge lists of the session, thought by thought
ChallengeListsOf(session) ==
    [k \in DOMAIN session.thoughts |-> session.thoughts[k].challenges]

\* s is t or the beginning of t
IsPrefix(s, t) ==
    Len(s) <= Len(t) /\ SubSeq(t, 1, Len(s)) = s

(* C32: a successful endorse_or_challenge appends one record
   {from_agent, concern, level} to the thought's challenges iff the level
   brought into [-1, 1] is negative and the note is non-empty, and leaves
   the list alone otherwise; no step removes or alters a record of any
   thought, a later non-negative endorsement of the same agent included;
   and a thought reported as a tension carries its whole challenge list. *)
C32_ChallengeRecords ==
    [][/\ \A s \in Sessions :
            \A k \in DOMAIN active_sessions[s].thoughts :
                /\ IsPrefix(ChallengeListsOf(active_sessions[s])[k],
                            ChallengeListsOf(active_sessions'[s])[k])
                /\ \/ ChallengeListsOf(active_sessions'[s])[k]
                          = ChallengeListsOf(active_sessions[s])[k]
                   \/ /\ response'.tool = "endorse_or_challenge"
                      /\ response'.status = "success"
                      /\ active_sessions[s].thoughts[k].thought_id = response'.id
       /\ (response'.tool = "endorse_or_challenge" /\ response'.status = "success") =>
            \A thoughtId \in 1..2, agentLens \in Range(EndorseLenses),
               level \in EndorseLevelInputs, note \in {0, 1} :
                \/ LET s   == current_session_id
                       k   == CHOOSE i \in DOMAIN active_sessions[s].thoughts :
                                 active_sessions[s].thoughts[i].thought_id = thoughtId
                       old == active_sessions[s].thoughts[k].challenges
                       new == active_sessions'[s].thoughts[k].challenges
                   IN  /\ s \in Sessions
                       /\ \E i \in DOMAIN active_sessions[s].thoughts :
                              active_sessions[s].thoughts[i].thought_id = thoughtId
                       /\ new = IF Limited(level) < 0 /\ note # 0
                                THEN old \o << [from_agent |-> agentLens,
                                                concern |-> note,
                                                level |-> Limited(level)] >>
                                ELSE old
                \/ ~tool_endorse_challenge(NoId, thoughtId, agentLens, level, note, 0)
       /\ \A s \in DOMAIN active_sessions' :
            LET tensions == identify_tensions(active_sessions'[s])
            IN  \A i \in DOMAIN tensions :
                    \E k \in DOMAIN active_sessions'[s].thoughts :
                        /\ active_sessions'[s].thoughts[k].thought_id = tensions[i].thought_id
                        /\ tensions[i].challenges = active_sessions'[s].thoughts[k].challenges]_vars

(* the challenge of an agent still on record, and in the tension report,
   after the same agent endorsed the thought at a positive level *)
C32_Witness ==
    /\ response.tool = "endorse_or_challenge"
    /\ response.status = "success"
    /\ \E s \in Sessions :
        \E k \in DOMAIN active_sessions[s].thoughts :
            LET thought == active_sessions[s].thoughts[k]
                tensions == identify_tensions(active_sessions[s])
            IN  /\ Len(thought.challenges) = 1
                /\ thought.challenges[1].level = -10
                /\ thought.challenges[1].from_agent \in DOMAIN thought.endorsements
                /\ thought.endorsements[thought.challenges[1].from_agent] = 8
                /\ Len(tensions) = 1
                /\ tensions[1].challenges = thought.challenges

----------------------------------------------------------------------------
(* Two sessions side by side: every call names its session or falls back
   on the current one, and the clock moves between and within requests *)

MaxFrameCalls == 4

InitFrame ==
    /\ active_sessions = <<>>
    /\ current_session_id = NoId
    /\ agent_session_ops = [s \in SessionIds |-> [a \in AGENT_LENSES |-> <<>>]]
    /\ agent_ops_total = 0
    /\ now = 0
    /\ ops_log = [s \in SessionIds |-> [a \in AGENT_LENSES |-> <<>>]]
    /\ response = NoResponse
    /\ fuel = MaxFrameCalls
    /\ EnsembleOnly

FrameStart ==
    /\ response = NoResponse
    /\ tool_start_collaborative(RateLenses)

FrameContribute ==
    /\ response = NoResponse
    /\ \E sessionId \in SessionIdInputs, agentLens \in LensInputs,
          elapsed \in RateElapsed :
           tool_contribute(sessionId, agentLens, 1, <<>>, 15, elapsed)

FrameEndorseChallenge ==
    /\ response = NoResponse
    /\ \E sessionId \in SessionIdInputs, agentLens \in LensInputs,
          elapsed \in RateElapsed :
           tool_endorse_challenge(sessionId, 1, agentLens, -15, 1, elapsed)

FrameProposeIntegration ==
    /\ response = NoResponse
    /\ \E sessionId \in SessionIdInputs, agentLens \in LensInputs,
          elapsed \in RateElapsed :
           tool_propose_integration(sessionId, agentLens, 1, TRUE, <<>>, elapsed)

NextFrame ==
    \/ FrameStart
    \/ FrameContribute
    \/ FrameEndorseChallenge
    \/ FrameProposeIntegration
    \/ Deliver
    \/ Tick(1)

SpecFrame == InitFrame /\ [][NextFrame]_vars

\* all that a call of agentLens naming sessionId must leave alone
FrameOf(sessionId, agentLens) ==
    LET S == IF sessionId # NoId THEN sessionId ELSE current_session_id
    IN  /\ current_session_id' = current_session_id
        /\ DOMAIN active_sessions' = DOMAIN active_sessions
        /\ \A s \in Sessions \ {S} : active_sessions'[s] = active_sessions[s]
        /\ \A s \in SessionIds, a \in AGENT_LENSES :
               (s # S \/ a # agentLens) =>
                   agent_session_ops'[s][a] = agent_session_ops[s][a]

(* C33: a contribute, endorse_or_challenge or propose_integration call of
   agent A on session S, accepted or refused, leaves every other session,
   the queue of every other (session, agent) pair and the current-session
   marker as they were. *)
C33_OtherSessionsAndQueuesUntouched ==
    [][/\ response'.tool = "contribute_perspective" =>
            \A sessionId \in SessionIdInputs, agentLens \in LensInputs,
               elapsed \in RateElapsed :
                \/ FrameOf(sessionId, agentLens)
                \/ ~tool_contribute(sessionId, agentLens, 1, <<>>, 15, elapsed)
       /\ response'.tool = "endorse_or_challenge" =>
            \A sessionId \in SessionIdInputs, agentLens \in LensInputs,
               elapsed \in RateElapsed :
                \/ FrameOf(sessionId, agentLens)
                \/ ~tool_endorse_challenge(sessionId, 1, agentLens, -15, 1, elapsed)
       /\ response'.tool = "propose_integration" =>
            \A sessionId \in SessionIdInputs, agentLens \in LensInputs,
               elapsed \in RateElapsed :
                \/ FrameOf(sessionId, agentLens)
                \/ ~tool_propose_integration(sessionId, agentLens, 1, TRUE, <<>>, elapsed)]_vars

(* a thought just added by name to the session that is not the current one,
   by an agent whose queue in the current session holds an earlier
   operation *)
C33_Witness ==
    /\ response.tool = "contribute_perspective"
    /\ response.status = "success"
    /\ current_session_id = 2
    /\ Len(active_sessions) = 2
    /\ Len(active_sessions[1].thoughts) = 1
    /\ active_sessions[2].thoughts = <<>>
    /\ active_sessions[2].integrations # <<>>
    /\ agent_session_ops[1]["analytical"] # <<>>
    /\ agent_session_ops[1]["analytical"][Len(agent_session_ops[1]["analytical"])] = now
    /\ agent_session_ops[2]["analytical"] # <<>>
    /\ agent_session_ops[2]["analytical"][Len(agent_session_ops[2]["analytical"])] < now

\* what a thought is contributed with
ContributedPart(thought) ==
    [thought_id |-> thought.thought_id, agent_lens |-> thought.agent_lens,
     thought |-> thought.thought, builds_on |-> thought.builds_on,
     weight |-> thought.weight]

\* what an integration is proposed with
ProposedPart(integration) ==
    [proposal_id |-> integration.proposal_id,
     proposing_agent |-> integration.proposing_agent,
     integration |-> integration.integration,
     reconciles |-> integration.reconciles]

\* the ids of the thoughts of agent a, in list order
IdsBy(session, a) ==
    LET own == SelectSeq(session.thoughts, LAMBDA t : t.agent_lens = a)
    IN  [i \in DOMAIN own |-> own[i].thought_id]

IndicesMatchList(session) ==
    /\ DOMAIN session.thought_index =
           {session.thoughts[k].thought_id : k \in DOMAIN session.thoughts}
    /\ \A k \in DOMAIN session.thoughts :
           session.thought_index[session.thoughts[k].thought_id] = k
    /\ \A a \in AGENT_LENSES :
           /\ session.agent_thoughts[a] = IdsBy(session, a)
           /\ \A i, j \in DOMAIN session.agent_thoughts[a] :
                  i < j => session.agent_thoughts[a][i] < session.agent_thoughts[a][j]

(* C34: every step leaves the thoughts and integrations a session already
   has in place and in order, with their id, author, text,
   builds_on/reconciles and weight, and only adds at the tail; and after
   every step the id index and the per-agent index hold exactly the
   thoughts of the list, each agent's ids in increasing order. *)
C34_AppendOnlyIndexed ==
    [][/\ \A s \in Sessions :
            /\ Len(active_sessions'[s].thoughts) >= Len(active_sessions[s].thoughts)
            /\ \A k \in DOMAIN active_sessions[s].thoughts :
                   ContributedPart(active_sessions'[s].thoughts[k])
                       = ContributedPart(active_sessions[s].thoughts[k])
            /\ Len(active_sessions'[s].integrations)
                   >= Len(active_sessions[s].integrations)
            /\ \A k \in DOMAIN active_sessions[s].integrations :
                   ProposedPart(active_sessions'[s].integrations[k])
                       = ProposedPart(active_sessions[s].integrations[k])
       /\ \A s \in DOMAIN active_sessions' :
            IndicesMatchList(active_sessions'[s])]_vars

(* two thoughts of two agents, the second built on the first, both in place
   after the first was endorsed *)
C34_Witness ==
    /\ response.tool = "endorse_or_challenge"
    /\ response.status = "success"
    /\ \E s \in Sessions :
        LET session == active_sessions[s]
        IN  /\ Len(session.thoughts) = 2
            /\ session.thoughts[1].agent_lens # session.thoughts[2].agent_lens
            /\ session.thoughts[2].builds_on = <<1>>
            /\ session.thoughts[1].endorsements # <<>>
            /\ IndicesMatchList(session)

----------------------------------------------------------------------------
(* The builds_on graph as the handlers build it: every reference a
   contribute call may carry, to a thought, to the thought itself, to a
   thought not yet there *)

MaxAcyclicCalls == 4

InitAcyclic ==
    /\ active_sessions = <<>>
    /\ current_session_id = NoId
    /\ agent_session_ops = [s \in SessionIds |-> [a \in AGENT_LENSES |-> <<>>]]
    /\ agent_ops_total = 0
    /\ now = 0
    /\ ops_log = [s \in SessionIds |-> [a \in AGENT_LENSES |-> <<>>]]
    /\ response = NoResponse
    /\ fuel = MaxAcyclicCalls
    /\ EnsembleOnly

AcyclicContribute ==
    /\ response = NoResponse
    /\ \E agentLens \in Range(RateLenses), buildsOn \in BuildsOnInputs :
           tool_contribute(NoId, agentLens, 1, buildsOn, 15, 0)

AcyclicProposeIntegration ==
    /\ response = NoResponse
    /\ \E agentLens \in Range(RateLenses), reconciles \in {<<>>, <<1, 2>>} :
           tool_propose_integration(NoId, agentLens, 1, TRUE, reconciles, 0)

NextAcyclic ==
    \/ RateStart
    \/ AcyclicContribute
    \/ ReadEndorseChallenge
    \/ AcyclicProposeIntegration
    \/ Synthesize
    \/ Deliver

SpecAcyclic == InitAcyclic /\ [][NextAcyclic]_vars

(* C35: in every session built by start, contribute, endorse_or_challenge
   and propose_integration each builds_on reference goes from a thought to
   a thought of strictly smaller id, detect_cycles finds no cycle in the
   session, and synthesize reports an empty circularReasoning. *)
C35_BuildsOnAcyclic ==
    /\ \A s \in Sessions :
        /\ \A k \in DOMAIN active_sessions[s].thoughts :
               \A i \in DOMAIN active_sessions[s].thoughts[k].builds_on :
                   /\ active_sessions[s].thoughts[k].builds_on[i] >= 1
                   /\ active_sessions[s].thoughts[k].builds_on[i]
                          < active_sessions[s].thoughts[k].thought_id
        /\ detect_cycles(active_sessions[s]) = <<>>
    /\ (response.tool = "synthesize" /\ response.status = "success") =>
           response.circularReasoning = <<>>

(* synthesize answered on a session whose third thought builds on the two
   before it and whose second builds on the first *)
C35_Witness ==
    /\ response.tool = "synthesize"
    /\ response.status = "success"
    /\ Len(active_sessions[response.id].thoughts) = 3
    /\ active_sessions[response.id].thoughts[2].builds_on = <<1>>
    /\ active_sessions[response.id].thoughts[3].builds_on = <<1, 2>>

----------------------------------------------------------------------------
(* Tensions as the handlers produce them: sessions of two and of three
   agents, endorsements on either side of the thresholds *)

MaxTensionCalls == 7

TensionStartInputs ==
    {<<"analytical", "skeptical">>, <<"analytical", "skeptical", "creative">>}

InitTension ==
    /\ active_sessions = <<>>
    /\ current_session_id = NoId
    /\ agent_session_ops = [s \in SessionIds |-> [a \in AGENT_LENSES |-> <<>>]]
    /\ agent_ops_total = 0
    /\ now = 0
    /\ ops_log = [s \in SessionIds |-> [a \in AGENT_LENSES |-> <<>>]]
    /\ response = NoResponse
    /\ fuel = MaxTensionCalls
    /\ EnsembleOnly

TensionStart ==
    /\ response = NoResponse
    /\ \E agentLenses \in TensionStartInputs : tool_start_collaborative(agentLenses)

TensionContribute ==
    /\ response = NoResponse
    /\ tool_contribute(NoId, "analytical", 1, <<>>, 15, 0)

TensionEndorseChallenge ==
    /\ response = NoResponse
    /\ \E agentLens \in LensInputs, level \in LevelInputs :
           tool_endorse_challenge(NoId, 1, agentLens, level, 0, 0)

NextTension ==
    \/ TensionStart
    \/ TensionContribute
    \/ TensionEndorseChallenge
    \/ Deliver

SpecTension == InitTension /\ [][NextTension]_vars

\* the thought of the session with this id
ThoughtOf(session, id) ==
    session.thoughts[CHOOSE k \in DOMAIN session.thoughts :
                         session.thoughts[k].thought_id = id]

(* C36: the negative threshold lying strictly below the positive one, every
   thought reported by identify_tensions has at least two distinct
   endorsers, its author not among them; and a session of exactly two
   participants has no tension at all. *)
C36_TensionNeedsTwoEndorsers ==
    negative_endorsement_threshold < positive_endorsement_threshold =>
        \A s \in Sessions :
            LET session == active_sessions[s]
                tensions == identify_tensions(session)
            IN  /\ \A i \in DOMAIN tensions :
                       LET thought == ThoughtOf(session, tensions[i].thought_id)
                       IN  /\ Cardinality(DOMAIN thought.endorsements) >= 2
                           /\ thought.agent_lens \notin DOMAIN thought.endorsements
                /\ Cardinality(Range(session.agent_lenses)) = 2 => tensions = <<>>

(* a session of two agents whose one thought is challenged, beside a session
   of three whose one thought is in tension between its two endorsers *)
C36_Witness ==
    /\ Len(active_sessions) = 2
    /\ Len(active_sessions[1].agent_lenses) = 2
    /\ Len(active_sessions[1].thoughts) = 1
    /\ active_sessions[1].thoughts[1].endorsements = ("skeptical" :> -10)
    /\ identify_tensions(active_sessions[1]) = <<>>
    /\ Len(identify_tensions(active_sessions[2])) = 1
    /\ identify_tensions(active_sessions[2])[1].supporters = 1
    /\ identify_tensions(active_sessions[2])[1].challengers = 1

----------------------------------------------------------------------------
(* C37: whenever the addressed lateral-synthesis session has divergent
   concepts, none of them without a synthesis (get_remaining_concepts is
   empty) and no reflection yet, a reflect_on_session call with valid
   arguments succeeds. *)
C37_ReflectionAcceptedWhenNothingRemains ==
    [][response'.tool = "reflect_on_session" =>
        \A sessionId \in LateralSessionIdInputs :
            LET id == LateralTarget(sessionId)
            IN  ( /\ id # 0
                  /\ lateral.SESSIONS[id].divergent_concepts # <<>>
                  /\ get_remaining_concepts(lateral.SESSIONS[id]) = <<>>
                  /\ ~lateral.SESSIONS[id].reflection.present )
                => \/ response'.status = "success"
                   \/ ~tool_reflect_on_session(sessionId, 1, 1, 5)]_vars

(* C38: in every lateral-synthesis session no two syntheses are of the same
   divergent concept, every synthesis is of one of the session's current
   divergent concepts, and there are at most as many syntheses as divergent
   concepts. *)
C38_SynthesesUnique ==
    \A id \in DOMAIN lateral.SESSIONS :
        LET session == lateral.SESSIONS[id]
        IN  /\ \A i, k \in DOMAIN session.syntheses :
                   i # k => session.syntheses[i].divergent_concept
                                # session.syntheses[k].divergent_concept
            /\ \A i \in DOMAIN session.syntheses :
                   session.syntheses[i].divergent_concept
                       \in Range(session.divergent_concepts)
            /\ Len(session.syntheses) <= Len(session.divergent_concepts)

(* a second synthesis of a concept refused, in a session whose two divergent
   concepts are the same word *)
C38_Witness ==
    /\ response.tool = "record_synthesis"
    /\ response.error = "already_synthesized"
    /\ Len(lateral.SESSIONS[response.id].divergent_concepts) = 2
    /\ Cardinality(Range(lateral.SESSIONS[response.id].divergent_concepts)) = 1
    /\ Len(lateral.SESSIONS[response.id].syntheses) = 1


---------------------------------------------------------------------------
(* federated-intelligence: chat sessions kept as one JSON file each under
   _logs/sessions, and consultations of an external provider.  A query is
   named by the number of the consult_model call that carries it; a chat
   session by the number of the create_session call that made it.  The
   provider's reply to query q is written q as well: the role tells the two
   apart. *)

MaxChatSessions == 2
MaxConsults == 3

\* clients.ClientFactory.get_client knows these; "elsewhere" is any other name
Providers == {"ollama", "openai", "openrouter", "google"}

ProviderInputs == {"ollama", "elsewhere"}

ModelInputs == {"", "llama"}

ChatSessionIdInputs == 0..(MaxChatSessions + 1)

Message(role, content) == [role |-> role, content |-> content]

Session(id) == [id |-> id, messages |-> <<>>]

\* what get_session answers when there is no file of that name: None
NoSession == [id |-> NoId, messages |-> <<>>]

(* SessionManager.get_session: the file of the session read anew, or None
   when there is no such file *)
get_session(sessions, session_id) ==
    IF session_id \in DOMAIN sessions THEN sessions[session_id] ELSE NoSession

(* SessionManager.save_session: the file of the session rewritten whole *)
save_session(sessions, session) ==
    IF session.id \in DOMAIN sessions
    THEN [sessions EXCEPT ![session.id] = session]
    ELSE Append(sessions, session)

add_message_unsaved(sessions, session_id, role, content) == sessions

(* SessionManager.add_message: its own get_session, the append, and
   save_session.  Callers pass the id of a stored session. *)
add_message(sessions, session_id, role, content) ==
    LET session == get_session(sessions, session_id)
    IN  save_session(sessions,
            [session EXCEPT !.messages = Append(@, Message(role, content))])

(* OllamaClient.consult / OpenAIClient.consult: the messages posted to the
   provider.  An empty request.messages is falsy. *)
PostedMessages(request) ==
    IF request.messages # <<>>
    THEN request.messages
    ELSE (IF request.system_prompt # 0
          THEN <<Message("system", request.system_prompt)>> ELSE <<>>)
         \o <<Message("user", request.query)>>

FederatedStep(next) ==
    /\ federated' = next
    /\ UNCHANGED <<active_sessions, current_session_id, agent_session_ops,
                   agent_ops_total, now, ops_log, response, fuel,
                   in_flight, exporter, lateral>>

FederatedResult(tool, status, error, query) ==
    [tool |-> tool, status |-> status, error |-> error, query |-> query]

InitFederated ==
    /\ active_sessions = <<>>
    /\ current_session_id = NoId
    /\ agent_session_ops = [s \in SessionIds |-> [a \in AGENT_LENSES |-> <<>>]]
    /\ agent_ops_total = 0
    /\ now = 0
    /\ ops_log = [s \in SessionIds |-> [a \in AGENT_LENSES |-> <<>>]]
    /\ response = NoResponse
    /\ fuel = 0
    /\ in_flight = NoInFlight
    /\ exporter = ExporterStopped
    /\ lateral = NoLateral
    /\ \E default_model \in ModelInputs :
           federated = [NoFederated EXCEPT !.default_model = default_model]

(* tool_create_session: SessionManager.create_session under a fresh id *)
tool_create_session ==
    LET id == Len(federated.sessions) + 1
    IN  FederatedStep([federated EXCEPT
            !.sessions = save_session(@, Session(id)),
            !.result = FederatedResult("create_session", "success", "", 0)])

(* tool_consult_model up to its await of client.consult: the request is
   built and handed to the provider client, or the call is answered at
   once *)
tool_consult_model(provider, modelArg, system_prompt, session_id) ==
    LET tool == "consult_model"
        query == federated.queries + 1
        counted == [federated EXCEPT !.queries = query]
        model == IF modelArg # "" THEN modelArg
                 ELSE IF provider \in Providers THEN federated.default_model
                 ELSE ""
        session == get_session(federated.sessions, session_id)
        stored == add_message(federated.sessions, session_id, "user", query)
        history == IF session_id = NoId THEN <<>> ELSE session.messages
        messages == IF session_id # NoId /\ system_prompt # 0
                    THEN <<Message("system", system_prompt)>> \o history
                    ELSE history
        req == [provider |-> provider, model |-> model, query |-> query,
                system_prompt |-> system_prompt, session_id |-> session_id,
                messages |-> messages]
    IN  IF model = ""
        THEN FederatedStep([counted EXCEPT
                 !.result = FederatedResult(tool, "error", "no_model", query)])
        ELSE IF provider \notin Providers
        THEN FederatedStep([counted EXCEPT
                 !.result = FederatedResult(tool, "error",
                                            "consultation_failed", query)])
        ELSE IF session_id # NoId /\ session = NoSession
        THEN FederatedStep([counted EXCEPT
                 !.result = FederatedResult(tool, "error",
                                            "session_not_found", query)])
        ELSE FederatedStep([counted EXCEPT
                 !.sessions = IF session_id = NoId THEN @ ELSE stored,
                 !.calls = @ \cup {req}])

(* client.consult returns: log_consultation, the reply stored in the
   session, the success envelope *)
ConsultReturns(req) ==
    /\ req \in federated.calls
    /\ FederatedStep([federated EXCEPT
           !.calls = @ \ {req},
           !.sessions = IF req.session_id = NoId THEN @
                        ELSE add_message(@, req.session_id, "assistant",
                                         req.query),
           !.result = FederatedResult("consult_model", "success", "",
                                      req.query)])

(* client.consult raises: the except clause of tool_consult_model *)
ConsultRaises(req) ==
    /\ req \in federated.calls
    /\ FederatedStep([federated EXCEPT
           !.calls = @ \ {req},
           !.result = FederatedResult("consult_model", "error",
                                      "consultation_failed", req.query)])

CreateSession ==
    /\ Len(federated.sessions) < MaxChatSessions
    /\ tool_create_session

ConsultModel ==
    /\ federated.queries < MaxConsults
    /\ \E provider \in ProviderInputs, modelArg \in ModelInputs,
          system_prompt \in 0..1, session_id \in ChatSessionIdInputs :
           tool_consult_model(provider, modelArg, system_prompt, session_id)

ProviderAnswers == \E req \in federated.calls : ConsultReturns(req)

ProviderFails == \E req \in federated.calls : ConsultRaises(req)

NextFederated ==
    \/ CreateSession
    \/ ConsultModel
    \/ ProviderAnswers
    \/ ProviderFails

SpecFederated == InitFederated /\ [][NextFederated]_vars

StoredMessages(session_id) == federated.sessions[session_id].messages

(* C39: every request that consult_model hands to the provider client for
   an existing chat session carries a non-empty message list whose last
   message is the user message with the query of that very call, on the
   first turn of the session and on every later one. *)
C39_LastMessageIsCurrentQuery ==
    \A req \in federated.calls :
        req.session_id # NoId =>
            /\ req.messages # <<>>
            /\ req.messages[Len(req.messages)] = Message("user", req.query)

(* C40: a consult_model call on an existing chat session has appended its
   user message to the stored log by the time its request is with the
   provider; the log gains an assistant message only in the step where the
   provider succeeds, and then exactly the reply to that call, after its
   user message; a call whose provider fails is answered
   consultation_failed and leaves every stored log as it was, its user
   message kept and no reply to it stored. *)
C40_UserFirstReplyOnSuccess ==
    [][ /\ \A req \in federated'.calls \ federated.calls :
               req.session_id # NoId =>
                   federated'.sessions[req.session_id].messages =
                       Append(StoredMessages(req.session_id),
                              Message("user", req.query))
        /\ \A req \in federated.calls \ federated'.calls :
               req.session_id # NoId =>
                   /\ \E i \in 1..Len(StoredMessages(req.session_id)) :
                          StoredMessages(req.session_id)[i] =
                              Message("user", req.query)
                   /\ \A i \in 1..Len(StoredMessages(req.session_id)) :
                          StoredMessages(req.session_id)[i] #
                              Message("assistant", req.query)
                   /\ \/ /\ federated'.result.status = "success"
                         /\ federated'.result.query = req.query
                         /\ federated'.sessions[req.session_id].messages =
                                Append(StoredMessages(req.session_id),
                                       Message("assistant", req.query))
                      \/ /\ federated'.result.error = "consultation_failed"
                         /\ federated'.result.query = req.query
                         /\ federated'.sessions = federated.sessions
        /\ \A id \in DOMAIN federated.sessions :
               LET after == federated'.sessions[id].messages
               IN  (/\ after # StoredMessages(id)
                    /\ after[Len(after)].role = "assistant")
                   => \E req \in federated.calls \ federated'.calls :
                          /\ req.session_id = id
                          /\ federated'.result.status = "success"
      ]_vars

\* one session's log holds an answered turn and then a turn whose provider
\* failed, the failure being the last thing returned
C40_Witness ==
    /\ federated.calls = {}
    /\ federated.result.error = "consultation_failed"
    /\ \E id \in DOMAIN federated.sessions, q \in 1..MaxConsults :
           /\ federated.result.query = q
           /\ Len(StoredMessages(id)) = 3
           /\ StoredMessages(id)[2].role = "assistant"
           /\ StoredMessages(id)[3] = Message("user", q)

====
